---------------------------- MODULE Spec2Model ----------------------------
(***************************************************************************)
(* Model of the vector-space analytics services of the dashboard backend:  *)
(*   backend/app/dashboard/drift.py              (DriftService)            *)
(*   backend/app/core/weaviate_adapter.py        (drift check functions)   *)
(*   backend/app/dashboard/semantic_analysis.py  (SemanticAnalysisService) *)
(*                                                                         *)
(* Numbers.  A distance or score is a Python float.  The model keeps an    *)
(* unrounded value as an integer count of 10^-5 ("raw units") and a value  *)
(* that went through round(x, 4) as an integer count of 10^-4 ("reported   *)
(* units"); an average is the exact quotient sum/len, compared by cross    *)
(* multiplication.  round() is modelled as round-half-to-even.             *)
(*                                                                         *)
(* The vector store, the embedding provider and the numeric library        *)
(* (PCA, KMeans, NearestNeighbors) are collaborators: what they return is  *)
(* an input of the action, drawn from a bounded set.                       *)
(***************************************************************************)
EXTENDS Integers, Sequences, FiniteSets, TLC

VARIABLES
    \* ---- DriftService.get_drift_summary ----
    dsPc,            \* "idle" | "loop" | "done": position inside get_drift_summary
    function_names,  \* the list built from the aggregate query (drift.py:45-49)
    idx,             \* number of functions the for-loop has taken so far
    fname,           \* the loop variable; "" before the loop
    items,           \* the local list `items`
    distances,       \* the local list `distances` of the last comparison
    recent,          \* what fetch_objects answered in the current pass
    neighbors,       \* whether near_vector was asked in the current pass, and
                     \* a summary of its answer
    dsResult         \* the returned dict; [kind |-> "none"] while running

dsVars == <<dsPc, function_names, idx, fname, items, distances, recent,
            neighbors, dsResult>>

VARIABLES
    \* ---- DriftService.simulate ----
    simCall,         \* the arguments of the last simulate call (and the service's key)
    simFetch,        \* what near_vector answered during that call
    simResult        \* the dict it returned

simVars == <<simCall, simFetch, simResult>>

VARIABLES
    \* ---- SemanticAnalysisService ----
    semCall,         \* the operation called and its parameters
    semFetch,        \* what the vector store and the numeric library returned for it
    semResult        \* the returned value, or [kind |-> "raised"] when an exception escaped

semVars == <<semCall, semFetch, semResult>>

VARIABLES
    \* ---- HealerService.get_healable_functions ----
    healPc,            \* "idle" | "loop" | "done": position inside the method
    time_range_minutes,\* the argument of the call; 0 before the call
    func_error_counts, \* the dict, as the list of its entries in insertion order
    healIdx,           \* number of entries the for-loop has taken so far
    func_name,         \* the loop variable; "" before the loop
    healItems,         \* the local list `items`
    healResult         \* the returned dict; [kind |-> "none"] while running

healVars == <<healPc, time_range_minutes, func_error_counts, healIdx, func_name,
              healItems, healResult>>

VARIABLES
    \* ---- HealerService.batch_diagnose_async ----
    batchPc,         \* "idle" | "gather" | "done": position inside the method
    batch_names,     \* the argument function_names
    max_concurrent,  \* the argument max_concurrent; 0 before the call
    semaphore,       \* the free permits of asyncio.Semaphore(max_concurrent)
    taskPc,          \* per task of gather: "waiting" | "awaiting" | "returned"
    workItem,        \* per task, its call submitted to the executor: "none" |
                     \* "queued" | "running" | "finished" | "cancelled"
    workOutcome,     \* per task, what diagnose_and_heal returned; "" before
    taskResult,      \* per task, the dict diagnose_with_limit returned
    batchResult      \* the returned dict; [kind |-> "none"] while running

batchVars == <<batchPc, batch_names, max_concurrent, semaphore, taskPc, workItem,
               workOutcome, taskResult, batchResult>>

VARIABLES
    \* ---- plan_service and the diagnose endpoints of one user ----
    plan,         \* user.plan: "free" | "pro"
    usage_row,    \* call_count of the user's AiUsage row of today; NoRow if none
    reqPc,        \* per request: "idle" | "working" | "increment" | "commit"
    reqKind,      \* per request: which endpoint it called
    reqLoaded,    \* per request: call_count of the AiUsage object held by its
                  \* session, NotLoaded if the session holds none
    reqPending,   \* per request: calls of increment_usage still to make
    reqResponse   \* per request: status code of its last response; 0 before

usageVars == <<plan, usage_row, reqPc, reqKind, reqLoaded, reqPending, reqResponse>>

VARIABLES
    \* ---- the connections of one user and the client cache ----
    connections,   \* the committed rows of weaviate_connections, by id
    cxPc,          \* per request: "idle" | "selected" | "updating" |
                   \* "deactivated"
    cxOp,          \* per request: "activate" | "update" | "delete"
    cxId,          \* per request: the connection_id of the path
    cxSeen,        \* per request: the rows its running UPDATE has found
    cxLocked,      \* per request: the rows its open transaction has written
    connResult,    \* what get_user_connection did last
    client_cache,  \* _client_cache: connection id -> the client stored
    clientResult   \* what get_user_weaviate_client did last

connVars == <<connections, cxPc, cxOp, cxId, cxSeen, cxLocked, connResult,
              client_cache, clientResult>>

\* the variables of the services modelled after the analyses
extVars == <<batchVars, usageVars, connVars>>

\* the variables of the analyses and of the healable-function scan
coreVars == <<dsVars, simVars, semVars, healVars>>

vars == <<dsVars, simVars, semVars, healVars, extVars>>

(***************************************************************************)
(* Bounds of the model                                                     *)
(***************************************************************************)
MaxRecent == 3       \* records returned by the "recent" fetch (the code asks for 10)
MaxNeighbors == 3    \* objects returned by near_vector (the code asks for 6)
MaxSimK == 2         \* largest k a caller passes to simulate
MaxFetch == 4        \* records a fetch returns to recommend / coverage
MaxGolden == 2       \* records the golden fetch returns
MaxLimit == 4        \* largest `limit` a caller passes
MaxHalFetch == 5     \* records a fetch returns to get_hallucination_candidates
MaxClusterFetch == 3 \* records a fetch returns to the clustering operations
MaxClusters == 3     \* largest n_clusters a caller passes
MaxBatch == 3        \* function names a caller passes to batch_diagnose_async
MaxConcurrent == 2   \* largest max_concurrent a caller passes
MaxRequests == 2     \* requests of the user that are in progress together
MaxCallCount == 7    \* largest call_count the model follows
MaxConnections == 2  \* connections the user creates
MaxConnRequests == 3 \* connection requests of the user in progress together

(***************************************************************************)
(* Numeric helpers                                                         *)
(***************************************************************************)
RECURSIVE SumSeq(_)
SumSeq(s) == IF s = <<>> THEN 0 ELSE Head(s) + SumSeq(Tail(s))

Min(a, b) == IF a <= b THEN a ELSE b

\* n/d rounded to the nearest integer, ties to even (n >= 0, d > 0)
RoundHalfEven(n, d) ==
    LET q == n \div d
        r == n % d
    IN  IF 2 * r < d THEN q
        ELSE IF 2 * r > d THEN q + 1
        ELSE IF q % 2 = 0 THEN q ELSE q + 1

\* round(num/den, 4): num/den in raw units (10^-5), result in reported units (10^-4)
Round4(num, den) == RoundHalfEven(num, den * 10)

RangeOf(s) == {s[i] : i \in 1..Len(s)}

\* s[1..n], the Python slice s[:n] for n >= 0
Take(s, n) == SubSeq(s, 1, Min(n, Len(s)))

\* sorted(s, key=..., reverse=desc), keys[i] being the key of s[i]: Python's
\* sort is stable, also with reverse=True
SortedBy(s, keys, desc) ==
    LET Before(i, j) == IF desc THEN keys[i] > keys[j] ELSE keys[i] < keys[j]
        Rank(i) == Cardinality({j \in 1..Len(s) : Before(j, i)})
                   + Cardinality({j \in 1..(i - 1) : keys[j] = keys[i]}) + 1
    IN  [p \in 1..Len(s) |-> s[CHOOSE i \in 1..Len(s) : Rank(i) = p]]

\* all sequences over S of length 0..n
SeqsUpTo(S, n) == UNION {[1..k -> S] : k \in 0..n}

\* sequences over S without repetition
InjSeqs(S) == {s \in SeqsUpTo(S, Cardinality(S)) :
                 \A i, j \in 1..Len(s) : i # j => s[i] # s[j]}

(***************************************************************************)
(* DriftService.get_drift_summary                                          *)
(***************************************************************************)
FunctionNames == {"f1", "f2"}
\* group.grouped_by.value of the aggregate: a function name, or an empty value
GroupValues == FunctionNames \cup {""}

DriftThreshold == 30000        \* threshold = 0.3, in raw units
RecentLimit == 10              \* fetch_objects(limit=10)
NeighborLimit == 6             \* near_vector(limit=6)
NoDistance == 0 - 1            \* obj.metadata.distance is None

\* distances the vector store may report, in raw units
DistanceVals == {0, 29996, 30004, 90000}

\* the store returns the nearest objects first
NearestFirst(s) ==
    \A i, j \in 1..Len(s) :
        (i < j /\ s[i].distance # NoDistance /\ s[j].distance # NoDistance)
            => s[i].distance <= s[j].distance

\* what near_vector returns: at most limit objects, nearest first, each the
\* probe itself (at most once, at distance 0) or another object, with a
\* distance or None
NeighborObjs == [is_latest : BOOLEAN, distance : DistanceVals \cup {NoDistance}]

\* what near_vector may return: at most limit objects, nearest first, each
\* the probe itself (at most once, at distance 0) or another object, with a
\* distance or None
NeighborLists ==
    {s \in SeqsUpTo(NeighborObjs, Min(NeighborLimit, MaxNeighbors)) :
        /\ \A i, j \in 1..Len(s) : (s[i].is_latest /\ s[j].is_latest) => i = j
        /\ \A i \in 1..Len(s) : s[i].is_latest => s[i].distance \in {0, NoDistance}
        /\ NearestFirst(s)}

\* the number of records the function has in the store: a few, or more than
\* fetch_objects(limit=10) returns
Populations == (0..MaxRecent) \cup {RecentLimit + 1}

\* near_vector filters on the function only: the places, in its answer, of
\* objects that are not among the records fetch_objects returned.  There are
\* at most population - n_recent such objects, the probe is not one of them,
\* and at most n_recent objects are fetched records.
OutsideRecent(objects, population, n_recent) ==
    {out \in SUBSET {i \in 1..Len(objects) : ~objects[i].is_latest} :
        /\ Cardinality(out) <= population - n_recent
        /\ Len(objects) - Cardinality(out) <= n_recent}

NotAsked == [asked |-> FALSE]

\* what is kept of the answer of near_vector: how many objects it returned,
\* whether the probe was one of them, and how many of the distances appended
\* at drift.py:96-98 belong to objects outside the fetched records
NeighborAnswer(objects, outside) ==
    [asked |-> TRUE,
     returned |-> Len(objects),
     probe_returned |-> \E i \in 1..Len(objects) : objects[i].is_latest,
     kept_outside |->
        Cardinality({i \in outside : objects[i].distance # NoDistance})]

NoResult == [kind |-> "none"]

DriftItem(f, st, avg, n) ==
    [function_name |-> f, status |-> st, avg_distance |-> avg,
     sample_count |-> n, threshold |-> DriftThreshold]

\* drift.py:95-98
KeptDistances(objects) ==
    LET kept == SelectSeq(objects,
                    LAMBDA o : ~o.is_latest /\ o.distance # NoDistance)
    IN  [i \in 1..Len(kept) |-> kept[i].distance]

\* drift.py:100 (the unrounded average exceeds the threshold)
AvgExceeds(ds, threshold) == ds # <<>> /\ SumSeq(ds) > threshold * Len(ds)

\* mutant of DriftStatus: the comparison written >= instead of >
DriftStatus_AtLeast(ds) ==
    IF ds # <<>> /\ SumSeq(ds) >= DriftThreshold * Len(ds) THEN "ANOMALY" ELSE "NORMAL"

\* drift.py:102
DriftStatus(ds) == IF AvgExceeds(ds, DriftThreshold) THEN "ANOMALY" ELSE "NORMAL"

\* drift.py:107  round(avg_dist, 4)
ReportedAvg(ds) == IF ds = <<>> THEN 0 ELSE Round4(SumSeq(ds), Len(ds))

\* mutant of EarlyStatus: the vector of the newest record is looked at first
EarlyStatus_VectorFirst(n_recent, latest_has_vector) ==
    IF ~latest_has_vector THEN "NO_VECTOR"
    ELSE IF n_recent < 2 THEN "INSUFFICIENT_DATA"
    ELSE "COMPARE"

\* drift.py:63-85: the two checks made before near_vector is asked; "COMPARE"
\* when the pass goes on to the comparison
EarlyStatus(n_recent, latest_has_vector) ==
    IF n_recent < 2 THEN "INSUFFICIENT_DATA"
    ELSE IF ~latest_has_vector THEN "NO_VECTOR"
    ELSE "COMPARE"

DsInit ==
    /\ dsPc = "idle"
    /\ function_names = <<>>
    /\ idx = 0
    /\ fname = ""
    /\ items = <<>>
    /\ distances = <<>>
    /\ recent = [n |-> 0, latest_has_vector |-> FALSE]
    /\ neighbors = NotAsked
    /\ dsResult = NoResult

\* mutant of DriftErrorResult: the items gathered before the failure are kept
DriftErrorResult_KeepsItems ==
    [kind |-> "dict", items |-> items, total |-> 0, error |-> "str(e)"]

\* drift.py:117-119: what the except clause returns
DriftErrorResult ==
    [kind |-> "dict", items |-> <<>>, total |-> 0, error |-> "str(e)"]

\* drift.py:37-51: the aggregate query and the filter on `functions`
get_drift_summary_begin ==
    /\ dsPc = "idle"
    /\ \E groups \in InjSeqs(GroupValues), functions \in SUBSET FunctionNames :
         function_names' = SelectSeq(groups,
             LAMBDA g : g # "" /\ (functions = {} \/ g \in functions))
    /\ dsPc' = "loop"
    /\ UNCHANGED <<idx, fname, items, distances, recent, neighbors, dsResult>>
    /\ UNCHANGED <<simVars, semVars, healVars, extVars>>

\* drift.py:52-110: one pass of the for-loop, the store answering
get_drift_summary_iterate ==
    /\ dsPc = "loop"
    /\ idx < Len(function_names)
    /\ idx' = idx + 1
    /\ fname' = function_names[idx + 1]
    /\ \E population \in Populations, latest_has_vector \in BOOLEAN :
         LET n_recent == Min(RecentLimit, population) IN
         /\ recent' = [n |-> n_recent, latest_has_vector |-> latest_has_vector]
         /\ IF EarlyStatus(n_recent, latest_has_vector) # "COMPARE"
            THEN /\ items' = Append(items,
                       DriftItem(fname', EarlyStatus(n_recent, latest_has_vector),
                                 0, n_recent))
                 /\ neighbors' = NotAsked
                 /\ UNCHANGED distances
            ELSE \E objects \in {s \in NeighborLists : Len(s) <= population} :
                 \E outside \in OutsideRecent(objects, population, n_recent) :
                 /\ neighbors' = NeighborAnswer(objects, outside)
                 /\ distances' = KeptDistances(objects)
                 /\ items' = Append(items,
                       DriftItem(fname', DriftStatus(distances'),
                                 ReportedAvg(distances'), n_recent))
    /\ UNCHANGED <<dsPc, function_names, dsResult>>
    /\ UNCHANGED <<simVars, semVars, healVars, extVars>>

\* drift.py:117-119: the aggregate query raises before the loop
get_drift_summary_unavailable ==
    /\ dsPc = "idle"
    /\ dsPc' = "done"
    /\ dsResult' = DriftErrorResult
    /\ UNCHANGED <<function_names, idx, fname, items, distances, recent,
                   neighbors>>
    /\ UNCHANGED <<simVars, semVars, healVars, extVars>>

\* drift.py:117-119: fetch_objects or near_vector raises for one function
get_drift_summary_raise ==
    /\ dsPc = "loop"
    /\ idx < Len(function_names)
    /\ idx' = idx + 1
    /\ fname' = function_names[idx + 1]
    /\ dsPc' = "done"
    /\ dsResult' = DriftErrorResult
    /\ UNCHANGED <<function_names, items, distances, recent, neighbors>>
    /\ UNCHANGED <<simVars, semVars, healVars, extVars>>

\* drift.py:112-115
get_drift_summary_return ==
    /\ dsPc = "loop"
    /\ idx = Len(function_names)
    /\ dsPc' = "done"
    /\ dsResult' = [kind |-> "dict", items |-> items, total |-> Len(items)]
    /\ UNCHANGED <<function_names, idx, fname, items, distances, recent,
                   neighbors>>
    /\ UNCHANGED <<simVars, semVars, healVars, extVars>>

DsNext ==
    \/ get_drift_summary_begin
    \/ get_drift_summary_iterate
    \/ get_drift_summary_unavailable
    \/ get_drift_summary_raise
    \/ get_drift_summary_return

(***************************************************************************)
(* DriftService.simulate -> simulate_drift_check -> check_semantic_drift   *)
(***************************************************************************)
\* self.openai_api_key: None, the empty string, or a key
OpenAiKeys == {"None", "", "sk-key"}
Falsy(key) == key \in {"None", ""}

Texts == {"text a", "text b"}
SimThresholds == {0, 30000, 50000}      \* caller's threshold, raw units
Uuids == {"u1", "u2"}

SimObjs == [uuid : Uuids, distance : DistanceVals \cup {NoDistance}]

SimCalls == [text : Texts, function_name : FunctionNames,
             threshold : SimThresholds, k : 1..MaxSimK, openai_api_key : OpenAiKeys]

\* weaviate_adapter.py:535-570, `objects` being what near_vector(limit=k) returned
check_semantic_drift(objects, threshold, k) ==
    IF objects = <<>>
    THEN [kind |-> "dict", is_drift |-> FALSE, avg_distance |-> 0,
          nearest_uuid |-> "None", message |-> "No existing data to compare"]
    ELSE LET kept == SelectSeq(objects, LAMBDA o : o.distance # NoDistance)
             ds == [i \in 1..Len(kept) |-> kept[i].distance]
         IN  [kind |-> "dict",
              is_drift |-> AvgExceeds(ds, threshold),
              avg_distance |-> ReportedAvg(ds),
              nearest_uuid |-> objects[1].uuid,
              k |-> k, threshold |-> threshold]

\* r with r[key] = val added or replaced (a dict assignment)
DictSet(r, key, val) ==
    [x \in DOMAIN r \cup {key} |-> IF x = key THEN val ELSE r[x]]

\* weaviate_adapter.py:583-587, after the key check and the embedding
simulate_drift_check(call, objects) ==
    LET drift_result == check_semantic_drift(objects, call.threshold, call.k)
    IN  DictSet(DictSet(drift_result, "input_text", call.text),
                "function_name", call.function_name)

\* drift.py:135-141
SimErrorPayload(msg) ==
    [kind |-> "dict", is_drift |-> FALSE, avg_distance |-> 0, error |-> msg]

SimInit ==
    /\ simCall = [kind |-> "none"]
    /\ simFetch = [kind |-> "none"]
    /\ simResult = NoResult

\* drift.py:121-141 with weaviate_adapter.py:573-587
simulate ==
    /\ simCall.kind = "none"
    /\ \E call \in SimCalls :
         /\ simCall' = [kind |-> "call"] @@ call
         /\ IF Falsy(call.openai_api_key)
            THEN \* weaviate_adapter.py:581-582 raises ValueError, caught at drift.py:135
                 /\ simFetch' = [kind |-> "none"]
                 /\ simResult' =
                       SimErrorPayload("OpenAI API key required for drift check")
            ELSE \/ \* the embedding call or the vector store raises
                    /\ simFetch' = [kind |-> "failed"]
                    /\ simResult' = SimErrorPayload("str(e)")
                 \/ \E objects \in {s \in SeqsUpTo(SimObjs, call.k) : NearestFirst(s)} :
                      /\ simFetch' = [kind |-> "fetched", objects |-> objects]
                      /\ simResult' = simulate_drift_check(call, objects)
    /\ UNCHANGED <<dsVars, semVars, healVars, extVars>>

(***************************************************************************)
(* SemanticAnalysisService: what a fetch returns                           *)
(*                                                                         *)
(* A fetched record is identified by its place in the fetch (its uuid);    *)
(* has_vector says whether obj.vector and obj.vector.get("default") hold.  *)
(***************************************************************************)
FetchedObjs == [has_vector : BOOLEAN]

\* the places of the records that pass `if obj.vector and obj.vector.get("default")`
WithVectors(objs) == SelectSeq([i \in 1..Len(objs) |-> i], LAMBDA i : objs[i].has_vector)

Raised == [kind |-> "raised"]
ListResult(body) == [kind |-> "list", body |-> body]

SemInit ==
    /\ semCall = [op |-> "none"]
    /\ semFetch = [kind |-> "none"]
    /\ semResult = NoResult

(***************************************************************************)
(* recommend_with_diversity                                                *)
(***************************************************************************)
FREE_DAILY_LIMIT == 5
One == 10000                   \* 1.0 in reported units
\* nearest-golden cosine distances NearestNeighbors may return, raw units
RecDistanceVals == {0, 10000, 20000, 80000, 90000}

\* semantic_analysis.py:332-345
GoldenCandidates(exec_objs, dists) ==
    [i \in 1..Len(exec_objs) |->
        [uuid |-> exec_objs[i],
         distance_to_nearest_golden |-> Round4(dists[i], 1),
         candidate_type |-> "", score |-> 0]]

\* mutant of NoGoldenCandidates: the candidates left untyped and unscored,
\* as they are before the split when a golden reference exists
NoGoldenCandidates_Unscored(exec_objs) ==
    [i \in 1..Len(exec_objs) |->
        [uuid |-> exec_objs[i],
         distance_to_nearest_golden |-> One,
         candidate_type |-> "", score |-> 0]]

\* semantic_analysis.py:348-360
NoGoldenCandidates(exec_objs) ==
    [i \in 1..Len(exec_objs) |->
        [uuid |-> exec_objs[i],
         distance_to_nearest_golden |-> One,
         candidate_type |-> "DISCOVERY", score |-> One]]

\* semantic_analysis.py:371-373
MaxDist(candidates) ==
    LET m == CHOOSE d \in {candidates[i].distance_to_nearest_golden :
                              i \in 1..Len(candidates)} :
                 \A j \in 1..Len(candidates) :
                     candidates[j].distance_to_nearest_golden <= d
    IN  IF m = 0 THEN One ELSE m

\* semantic_analysis.py:377
DiscoveryScore(d, max_dist) == RoundHalfEven(d * One, max_dist)

\* mutant of SteadyScore: the steady score computed like the discovery score
SteadyScore_NotInverted(d, max_dist) == RoundHalfEven(d * One, max_dist)

\* semantic_analysis.py:381
SteadyScore(d, max_dist) == RoundHalfEven((max_dist - d) * One, max_dist)

\* mutant of Deduplicate: nothing removed
Deduplicate_KeepAll(refs, candidates) == refs

\* semantic_analysis.py:384-389: keep the first occurrence of each uuid
Deduplicate(refs, candidates) ==
    LET first == SelectSeq([p \in 1..Len(refs) |-> p],
                    LAMBDA p : \A q \in 1..(p - 1) :
                        candidates[refs[q]].uuid # candidates[refs[p]].uuid)
    IN  [p \in 1..Len(first) |-> refs[first[p]]]

\* semantic_analysis.py:363-391.  discovery and steady hold references to the
\* dicts of `candidates`; the two loops write candidate_type and score into
\* those dicts, the steady loop second.
BlendWithGolden(candidates, limit) ==
    LET refs == [i \in 1..Len(candidates) |-> i]
        Dist(i) == candidates[i].distance_to_nearest_golden
        Dists(rs) == [p \in 1..Len(rs) |-> Dist(rs[p])]
        sorted_by_dist == SortedBy(refs, Dists(refs), TRUE)
        half == limit \div 2
        discovery == Take(sorted_by_dist, half)
        steady == Take(SortedBy(sorted_by_dist, Dists(sorted_by_dist), FALSE),
                       limit - half)
        max_dist == MaxDist(candidates)
        after_discovery ==
            [i \in 1..Len(candidates) |->
                IF i \in RangeOf(discovery)
                THEN [candidates[i] EXCEPT !.candidate_type = "DISCOVERY",
                                           !.score = DiscoveryScore(Dist(i), max_dist)]
                ELSE candidates[i]]
        after_steady ==
            [i \in 1..Len(candidates) |->
                IF i \in RangeOf(steady)
                THEN [after_discovery[i] EXCEPT !.candidate_type = "STEADY",
                                                !.score = SteadyScore(Dist(i), max_dist)]
                ELSE after_discovery[i]]
        merged == Deduplicate(discovery \o steady, after_steady)
        out == Take(merged, limit)
    IN  [p \in 1..Len(out) |-> after_steady[out[p]]]

\* semantic_analysis.py:279-391
recommend_with_diversity ==
    \E limit \in 0..MaxLimit, fn \in FunctionNames :
      /\ semCall.op = "none"
      /\ semCall' = [op |-> "recommend_with_diversity", function_name |-> fn,
                     limit |-> limit]
      /\ \/ \* a fetch (executions or golden) raises: nothing catches it
            /\ semFetch' = [kind |-> "failed"]
            /\ semResult' = Raised
         \/ \E objs \in SeqsUpTo(FetchedObjs, Min(MaxFetch, limit * 5)),
               \* whether golden_vectors is non-empty (the collection exists and
               \* holds a usable vector for the function)
               has_golden \in BOOLEAN :
              LET exec_objs == WithVectors(objs) IN
              IF exec_objs = <<>>
              THEN /\ semFetch' = [kind |-> "fetched", objs |-> objs,
                                   has_golden |-> FALSE, dists |-> <<>>]
                   /\ semResult' = ListResult(<<>>)
              ELSE IF ~has_golden
              THEN /\ semFetch' = [kind |-> "fetched", objs |-> objs,
                                   has_golden |-> FALSE, dists |-> <<>>]
                   /\ semResult' =
                        ListResult(Take(NoGoldenCandidates(exec_objs), limit))
              ELSE \E dists \in [1..Len(exec_objs) -> RecDistanceVals] :
                   /\ semFetch' = [kind |-> "fetched", objs |-> objs,
                                   has_golden |-> TRUE, dists |-> dists]
                   /\ semResult' =
                        ListResult(BlendWithGolden(
                            GoldenCandidates(exec_objs, dists), limit))
      /\ UNCHANGED <<dsVars, simVars, healVars, extVars>>

(***************************************************************************)
(* get_golden_coverage                                                     *)
(***************************************************************************)
CoverageThreshold == 50000     \* distance < 0.5 is "covered", raw units
\* nearest-golden cosine distances NearestNeighbors may return, raw units
CovDistanceVals == {10000, 49996, 50000, 90000}

\* mutant of Covered: the comparison written <= instead of <
Covered_AtMost(dists) ==
    Cardinality({i \in 1..Len(dists) : dists[i] <= CoverageThreshold})

\* semantic_analysis.py:236
Covered(dists) == Cardinality({i \in 1..Len(dists) : dists[i] < CoverageThreshold})

\* semantic_analysis.py:226-237: round(covered / len(exec_objs), 4), reported units
CoverageScore(n_exec, n_golden, dists) ==
    IF n_golden > 0 /\ n_exec > 0
    THEN RoundHalfEven(Covered(dists) * One, n_exec)
    ELSE 0

\* semantic_analysis.py:221, with D >= 2 the dimensionality of the embeddings
NComponents(n_vectors) == Min(2, n_vectors)

\* semantic_analysis.py:209-219: all_vectors, the rows given to PCA; row p is
\* the vector of an execution record or of a golden record
AllVectors(exec_objs, golden_objs) ==
    [p \in 1..Len(exec_objs) |-> <<"execution", exec_objs[p]>>]
    \o [p \in 1..Len(golden_objs) |-> <<"golden", golden_objs[p]>>]

\* mutant of CoverageScatter: idx starts again at 0 for the golden records
CoverageScatter_IdxRestarts(exec_objs, golden_objs) ==
    [p \in 1..(Len(exec_objs) + Len(golden_objs)) |->
        IF p <= Len(exec_objs)
        THEN [coords_row |-> p, is_golden |-> FALSE,
              props_of |-> <<"execution", exec_objs[p]>>,
              y_is_zero |-> NComponents(Len(exec_objs) + Len(golden_objs)) # 2]
        ELSE [coords_row |-> p - Len(exec_objs), is_golden |-> TRUE,
              props_of |-> <<"golden", golden_objs[p - Len(exec_objs)]>>,
              y_is_zero |-> NComponents(Len(exec_objs) + Len(golden_objs)) # 2]]

\* semantic_analysis.py:240-266.  coords[idx] is the row PCA computed for
\* all_vectors[idx]; a point is described by the row it takes its x, y from
\* and by the record it takes its properties from.
CoverageScatter(exec_objs, golden_objs) ==
    [p \in 1..(Len(exec_objs) + Len(golden_objs)) |->
        IF p <= Len(exec_objs)
        THEN [coords_row |-> p, is_golden |-> FALSE,
              props_of |-> <<"execution", exec_objs[p]>>,
              y_is_zero |-> NComponents(Len(exec_objs) + Len(golden_objs)) # 2]
        ELSE [coords_row |-> p, is_golden |-> TRUE,
              props_of |-> <<"golden", golden_objs[p - Len(exec_objs)]>>,
              y_is_zero |-> NComponents(Len(exec_objs) + Len(golden_objs)) # 2]]

\* semantic_analysis.py:158-273
get_golden_coverage ==
    \E limit \in 1..MaxLimit, fn \in FunctionNames \cup {"None"} :
      /\ semCall.op = "none"
      /\ semCall' = [op |-> "get_golden_coverage", function_name |-> fn,
                     limit |-> limit]
      /\ \/ \* a fetch (executions or golden) raises: nothing catches it
            /\ semFetch' = [kind |-> "failed"]
            /\ semResult' = Raised
         \/ \E objs \in SeqsUpTo(FetchedObjs, Min(MaxFetch, limit)),
               \* the golden records; none when the collection does not exist
               golden \in SeqsUpTo(FetchedObjs, Min(MaxGolden, limit)) :
              LET exec_objs == WithVectors(objs)
                  golden_objs == WithVectors(golden)
              IN
              IF exec_objs = <<>>
              THEN /\ semFetch' = [kind |-> "fetched", objs |-> objs,
                                   golden |-> golden, dists |-> <<>>]
                   /\ semResult' = [kind |-> "dict", coverage_score |-> 0,
                                    total_executions |-> 0,
                                    golden_count |-> Len(golden_objs),
                                    scatter |-> <<>>]
              ELSE \E dists \in IF golden_objs = <<>> THEN {<<>>}
                                ELSE [1..Len(exec_objs) -> CovDistanceVals] :
                   /\ semFetch' = [kind |-> "fetched", objs |-> objs,
                                   golden |-> golden, dists |-> dists]
                   /\ semResult' =
                        [kind |-> "dict",
                         coverage_score |->
                            CoverageScore(Len(exec_objs), Len(golden_objs), dists),
                         total_executions |-> Len(exec_objs),
                         golden_count |-> Len(golden_objs),
                         scatter |-> CoverageScatter(exec_objs, golden_objs)]
      /\ UNCHANGED <<dsVars, simVars, healVars, extVars>>

(***************************************************************************)
(* get_hallucination_candidates                                            *)
(***************************************************************************)
HalMinVectors == 5             \* fewer usable vectors: empty result
\* caller's threshold (0.0 .. 1.0 at the endpoint), raw units
HalThresholds == {30000, 30002}
\* np.mean(distances[:, 1:], axis=1): mean distance to the k nearest others, raw units
HalDistanceVals == {20000, 30004, 60000}

\* semantic_analysis.py:441-454: the records whose mean distance exceeds the threshold
HalCandidates(objects_with_vectors, avg_distances, threshold) ==
    LET over == SelectSeq([i \in 1..Len(objects_with_vectors) |-> i],
                    LAMBDA i : avg_distances[i] > threshold)
    IN  [p \in 1..Len(over) |->
            [span_id |-> objects_with_vectors[over[p]],
             distance |-> Round4(avg_distances[over[p]], 1)]]

\* key=lambda c: c["distance"]
HalKeys(candidates) == [p \in 1..Len(candidates) |-> candidates[p].distance]

\* mutant of HalSorted: reverse=True forgotten
HalSorted_Ascending(candidates) == SortedBy(candidates, HalKeys(candidates), FALSE)

\* semantic_analysis.py:456
HalSorted(candidates) == SortedBy(candidates, HalKeys(candidates), TRUE)

\* semantic_analysis.py:397-457
get_hallucination_candidates ==
    \E limit \in 0..MaxLimit, fn \in FunctionNames \cup {"None"},
       threshold \in HalThresholds :
      /\ semCall.op = "none"
      /\ semCall' = [op |-> "get_hallucination_candidates", function_name |-> fn,
                     threshold |-> threshold, limit |-> limit]
      /\ \/ \* the fetch raises: nothing catches it
            /\ semFetch' = [kind |-> "failed"]
            /\ semResult' = Raised
         \/ \E objs \in SeqsUpTo(FetchedObjs, Min(MaxHalFetch, limit * 5)) :
              LET objects_with_vectors == WithVectors(objs) IN
              IF Len(objects_with_vectors) < HalMinVectors
              THEN /\ semFetch' = [kind |-> "fetched", objs |-> objs,
                                   avg_distances |-> <<>>]
                   /\ semResult' = ListResult(<<>>)
              ELSE \E avg_distances \in
                        [1..Len(objects_with_vectors) -> HalDistanceVals] :
                   /\ semFetch' = [kind |-> "fetched", objs |-> objs,
                                   avg_distances |-> avg_distances]
                   /\ semResult' = ListResult(Take(
                        HalSorted(HalCandidates(objects_with_vectors,
                                                avg_distances, threshold)),
                        limit))
      /\ UNCHANGED <<dsVars, simVars, healVars, extVars>>

(***************************************************************************)
(* get_bottleneck_clusters                                                 *)
(*                                                                         *)
(* duration_ms is kept in units of 0.001 ms, avg_duration_ms (rounded to 2 *)
(* decimals) in units of 0.01 ms.  KMeans is a collaborator: any labelling *)
(* of the vectors with 0..k-1 may come back.                               *)
(***************************************************************************)
BottleneckFactor == 2          \* avg_dur > global_avg * 2
DurationVals == {1003, 1004, 5000}
TimedObjs == [has_vector : BOOLEAN, duration_ms : DurationVals]

\* mutant of Members: a vector counted in every cluster up to its own
Members_UpToLabel(labels, cid) == {i \in 1..Len(labels) : labels[i] <= cid}

\* the places (in objects_with_vectors) of the members of cluster cid
Members(labels, cid) == {i \in 1..Len(labels) : labels[i] = cid}

RECURSIVE SumOver(_, _)
SumOver(f, S) ==
    IF S = {} THEN 0
    ELSE LET x == CHOOSE y \in S : TRUE IN f[x] + SumOver(f, S \ {x})

\* round(float(avg_dur), 2), avg_dur being 0.0 for an empty cluster
AvgDurationMs(durations, members) ==
    IF members = {} THEN 0
    ELSE RoundHalfEven(SumOver(durations, members), Cardinality(members) * 10)

\* mutant of IsBottleneck: the factor 2 dropped
IsBottleneck_NoFactor(durations, members) ==
    /\ members # {}
    /\ SumOver(durations, members) * Len(durations)
         > SumOver(durations, 1..Len(durations)) * Cardinality(members)

\* semantic_analysis.py:128,136,148: float(avg_dur) > global_avg * 2
IsBottleneck(durations, members) ==
    /\ members # {}
    /\ SumOver(durations, members) * Len(durations)
         > BottleneckFactor * SumOver(durations, 1..Len(durations))
           * Cardinality(members)

\* key=lambda c: c["avg_duration_ms"]
ClusterKeys(clusters) == [p \in 1..Len(clusters) |-> clusters[p].avg_duration_ms]

\* semantic_analysis.py:130-152
BottleneckClusters(objs, objects_with_vectors, labels, actual_k) ==
    LET durations == [i \in 1..Len(objects_with_vectors) |->
                        objs[objects_with_vectors[i]].duration_ms]
        clusters ==
            [c \in 1..actual_k |->
                LET members == Members(labels, c - 1) IN
                [cluster_id |-> c - 1,
                 avg_duration_ms |-> AvgDurationMs(durations, members),
                 count |-> Cardinality(members),
                 \* the first member, whose function_name / span_id is shown
                 representative_of |->
                    IF members = {} THEN 0
                    ELSE objects_with_vectors[
                            CHOOSE i \in members : \A j \in members : i <= j],
                 is_bottleneck |-> IsBottleneck(durations, members)]]
    IN  SortedBy(clusters, ClusterKeys(clusters), TRUE)

\* semantic_analysis.py:91-152, for one call and one answer of the store
bottleneck_request(limit, fn, n_clusters, fetches) ==
    /\ semCall.op = "none"
    /\ semCall' = [op |-> "get_bottleneck_clusters", function_name |-> fn,
                   n_clusters |-> n_clusters, limit |-> limit]
    /\ \/ \* the fetch raises: nothing catches it
          /\ semFetch' = [kind |-> "failed"]
          /\ semResult' = Raised
       \/ \E objs \in fetches :
            LET objects_with_vectors == WithVectors(objs) IN
            IF Len(objects_with_vectors) < n_clusters
            THEN /\ semFetch' = [kind |-> "fetched", objs |-> objs, labels |-> <<>>]
                 /\ semResult' = ListResult(<<>>)
            ELSE LET actual_k == Min(n_clusters, Len(objects_with_vectors)) IN
                 \E labels \in [1..Len(objects_with_vectors) -> 0..(actual_k - 1)] :
                 /\ semFetch' = [kind |-> "fetched", objs |-> objs,
                                 labels |-> labels]
                 /\ semResult' = ListResult(
                      BottleneckClusters(objs, objects_with_vectors, labels,
                                         actual_k))
    /\ UNCHANGED <<dsVars, simVars, healVars, extVars>>

\* semantic_analysis.py:91-152
get_bottleneck_clusters ==
    \E limit \in 1..MaxLimit, fn \in FunctionNames \cup {"None"},
       n_clusters \in 2..MaxClusters :
      bottleneck_request(limit, fn, n_clusters,
                         SeqsUpTo(TimedObjs, Min(MaxClusterFetch, limit)))

\* the six executions of the worked example: durations 10, 12, 11, 500, 480
\* and 510 ms, every one with a vector
ExampleDurations == {10000, 12000, 11000, 500000, 480000, 510000}
ExampleLimit == 300            \* the endpoint's default limit
ExampleFetches ==
    {[i \in 1..Len(d) |-> [has_vector |-> TRUE, duration_ms |-> d[i]]] :
        d \in {s \in InjSeqs(ExampleDurations) :
                  Len(s) = Cardinality(ExampleDurations)}}

\* semantic_analysis.py:91-152, called with n_clusters = 2 on the six
\* executions, fetched in any order and labelled by KMeans in any way
get_bottleneck_clusters_example ==
    \E fn \in FunctionNames \cup {"None"} :
      bottleneck_request(ExampleLimit, fn, 2, ExampleFetches)

(***************************************************************************)
(* get_input_scatter                                                       *)
(***************************************************************************)
\* semantic_analysis.py:67: vectors, the rows given to PCA; row i is the vector
\* of the i-th retained record
VectorRows(objects_with_vectors) ==
    [i \in 1..Len(objects_with_vectors) |-> objects_with_vectors[i]]

\* semantic_analysis.py:73-83: one point per retained record; coords[i] is the
\* row PCA computed for vectors[i]
ScatterPoints(objects_with_vectors) ==
    [i \in 1..Len(objects_with_vectors) |->
        [coords_row |-> i, props_of |-> objects_with_vectors[i],
         y_is_zero |-> NComponents(Len(objects_with_vectors)) # 2]]

\* mutant of InputScatter: a single vector is projected
InputScatter_AllowOne(objs) ==
    IF WithVectors(objs) = <<>> THEN <<>> ELSE ScatterPoints(WithVectors(objs))

\* semantic_analysis.py:56-85: what is returned for the fetched records
InputScatter(objs) ==
    LET objects_with_vectors == WithVectors(objs) IN
    IF objs = <<>> \/ Len(objects_with_vectors) < 2
    THEN <<>>
    ELSE ScatterPoints(objects_with_vectors)

\* semantic_analysis.py:37-85
get_input_scatter ==
    \E limit \in 1..MaxLimit, fn \in FunctionNames \cup {"None"} :
      /\ semCall.op = "none"
      /\ semCall' = [op |-> "get_input_scatter", function_name |-> fn,
                     limit |-> limit]
      /\ \/ \* the fetch raises: nothing catches it
            /\ semFetch' = [kind |-> "failed"]
            /\ semResult' = Raised
         \/ \E objs \in SeqsUpTo(FetchedObjs, Min(MaxFetch, limit)) :
              /\ semFetch' = [kind |-> "fetched", objs |-> objs]
              /\ semResult' = ListResult(InputScatter(objs))
      /\ UNCHANGED <<dsVars, simVars, healVars, extVars>>

(***************************************************************************)
(* get_error_clusters                                                      *)
(***************************************************************************)
ErrorCodes == {"", "E1", "E2"} \* props.get("error_code", "")
MessageLimit == 300            \* str(...)[:300]

\* an error message: a text, known by its id, and its number of characters;
\* the empty string has no characters
NoMessage == [id |-> "", len |-> 0]
ErrorMessages == {NoMessage, [id |-> "m1", len |-> 12], [id |-> "m2", len |-> 301]}

\* the ERROR records the store may return: one without a vector, and with a
\* vector: a full record, one without error code and message, one without
\* function name and with a message longer than the limit, and a second
\* full record
ErrorObjs ==
    {[has_vector |-> FALSE, error_code |-> "", function_name |-> "",
      error_message |-> NoMessage],
     [has_vector |-> TRUE, error_code |-> "E1", function_name |-> "f1",
      error_message |-> [id |-> "m1", len |-> 12]],
     [has_vector |-> TRUE, error_code |-> "", function_name |-> "f1",
      error_message |-> NoMessage],
     [has_vector |-> TRUE, error_code |-> "E2", function_name |-> "",
      error_message |-> [id |-> "m2", len |-> 301]],
     [has_vector |-> TRUE, error_code |-> "E2", function_name |-> "f2",
      error_message |-> [id |-> "m1", len |-> 12]]}

NonEmpty(S) == S \ {""}

\* str(props.get("error_message", "Unknown error"))[:300]
Truncated(msg) == [id |-> msg.id, len |-> Min(msg.len, MessageLimit)]

\* mutant of SingletonClusters: the clusters numbered by place in the fetch
SingletonClusters_FetchPlace(objs, objects_with_vectors) ==
    [i \in 1..Len(objects_with_vectors) |->
        LET o == objs[objects_with_vectors[i]] IN
        [cluster_id |-> objects_with_vectors[i] - 1,
         count |-> 1,
         representative_error |-> Truncated(o.error_message),
         error_codes |-> NonEmpty({o.error_code}),
         functions |-> NonEmpty({o.function_name})]]

\* semantic_analysis.py:487-497: one cluster per record
SingletonClusters(objs, objects_with_vectors) ==
    [i \in 1..Len(objects_with_vectors) |->
        LET o == objs[objects_with_vectors[i]] IN
        [cluster_id |-> i - 1,
         count |-> 1,
         representative_error |-> Truncated(o.error_message),
         error_codes |-> NonEmpty({o.error_code}),
         functions |-> NonEmpty({o.function_name})]]

\* key=lambda c: c["count"]
CountKeys(clusters) == [p \in 1..Len(clusters) |-> clusters[p].count]

\* mutant of RepresentativeError: the message of the last member that has one
RepresentativeError_Last(objs, objects_with_vectors, members) ==
    LET with_message ==
            {i \in members : objs[objects_with_vectors[i]].error_message.len > 0}
    IN  IF with_message = {} THEN NoMessage
        ELSE Truncated(objs[objects_with_vectors[
                 CHOOSE i \in with_message : \A j \in with_message : j <= i]]
                    .error_message)

\* semantic_analysis.py:512-523: representative_error starts empty and takes
\* the message of a member only while it is still empty
RepresentativeError(objs, objects_with_vectors, members) ==
    LET with_message ==
            {i \in members : objs[objects_with_vectors[i]].error_message.len > 0}
    IN  IF with_message = {} THEN NoMessage
        ELSE Truncated(objs[objects_with_vectors[
                 CHOOSE i \in with_message : \A j \in with_message : i <= j]]
                    .error_message)

\* semantic_analysis.py:505-534; a sorted list of distinct strings is kept as a set
ErrorClusters(objs, objects_with_vectors, labels, actual_k) ==
    LET clusters ==
            [c \in 1..actual_k |->
                LET members == Members(labels, c - 1) IN
                [cluster_id |-> c - 1,
                 count |-> Cardinality(members),
                 representative_error |->
                    RepresentativeError(objs, objects_with_vectors, members),
                 error_codes |->
                    NonEmpty({objs[objects_with_vectors[i]].error_code : i \in members}),
                 functions |->
                    NonEmpty({objs[objects_with_vectors[i]].function_name :
                                i \in members})]]
    IN  SortedBy(clusters, CountKeys(clusters), TRUE)

\* semantic_analysis.py:463-534
get_error_clusters ==
    \E limit \in 1..MaxLimit, n_clusters \in 2..MaxClusters :
      /\ semCall.op = "none"
      /\ semCall' = [op |-> "get_error_clusters", n_clusters |-> n_clusters,
                     limit |-> limit]
      /\ \/ \* the fetch raises: nothing catches it
            /\ semFetch' = [kind |-> "failed"]
            /\ semResult' = Raised
         \/ \E objs \in SeqsUpTo(ErrorObjs, Min(MaxClusterFetch, limit)) :
              LET objects_with_vectors == WithVectors(objs) IN
              IF Len(objects_with_vectors) < n_clusters
              THEN /\ semFetch' = [kind |-> "fetched", objs |-> objs, labels |-> <<>>]
                   /\ semResult' =
                        ListResult(SingletonClusters(objs, objects_with_vectors))
              ELSE LET actual_k == Min(n_clusters, Len(objects_with_vectors)) IN
                   \E labels \in [1..Len(objects_with_vectors) -> 0..(actual_k - 1)] :
                   /\ semFetch' = [kind |-> "fetched", objs |-> objs,
                                   labels |-> labels]
                   /\ semResult' = ListResult(
                        ErrorClusters(objs, objects_with_vectors, labels, actual_k))
      /\ UNCHANGED <<dsVars, simVars, healVars, extVars>>

(***************************************************************************)
(* HealerService.get_healable_functions                                    *)
(***************************************************************************)
TimeRanges == {0, 1440}        \* time_range_minutes: 0 means no time filter
ErrorCounts == {0, 1, 2}       \* group.total_count or 0
HealErrorCodes == {"", "E1", "E2"}
ErrorTimes == {"None", "t1"}   \* timestamp_utc of the latest error, if any

\* the groups of the aggregate over function_name: distinct values, each
\* with its count
FuncGroupObjs == [value : GroupValues, total_count : ErrorCounts]
FuncGroups ==
    {g \in SeqsUpTo(FuncGroupObjs, Cardinality(GroupValues)) :
        \A i, j \in 1..Len(g) : i # j => g[i].value # g[j].value}

\* key=lambda x: x["error_count"]
ErrorCountKeys(its) == [p \in 1..Len(its) |-> its[p].error_count]

\* healer.py:301-308: what the except clause returns
HealErrorResult(t) ==
    [kind |-> "dict", items |-> <<>>, total |-> 0,
     time_range_minutes |-> t, error |-> "str(e)"]

HealInit ==
    /\ healPc = "idle"
    /\ time_range_minutes = 0
    /\ func_error_counts = <<>>
    /\ healIdx = 0
    /\ func_name = ""
    /\ healItems = <<>>
    /\ healResult = NoResult

\* healer.py:233-254: the aggregate over function_name answers
get_healable_functions_begin ==
    /\ healPc = "idle"
    /\ \E t \in TimeRanges, groups \in FuncGroups :
         /\ time_range_minutes' = t
         /\ func_error_counts' =
               LET named == SelectSeq(groups, LAMBDA g : g.value # "") IN
               [i \in 1..Len(named) |->
                  [function_name |-> named[i].value,
                   error_count |-> named[i].total_count]]
    /\ healPc' = "loop"
    /\ UNCHANGED <<healIdx, func_name, healItems, healResult>>
    /\ UNCHANGED <<dsVars, simVars, semVars, extVars>>

\* healer.py:256-291: one pass of the for-loop, the store answering
get_healable_functions_iterate ==
    /\ healPc = "loop"
    /\ healIdx < Len(func_error_counts)
    /\ healIdx' = healIdx + 1
    /\ func_name' = func_error_counts[healIdx + 1].function_name
    /\ \E code_groups \in SUBSET HealErrorCodes, latest_time \in ErrorTimes :
         healItems' = Append(healItems,
            [function_name |-> func_name',
             error_count |-> func_error_counts[healIdx + 1].error_count,
             error_codes |-> NonEmpty(code_groups),
             latest_error_time |-> latest_time])
    /\ UNCHANGED <<healPc, time_range_minutes, func_error_counts, healResult>>
    /\ UNCHANGED <<dsVars, simVars, semVars, extVars>>

\* healer.py:301-308: the collection or the first aggregate raises
get_healable_functions_unavailable ==
    /\ healPc = "idle"
    /\ \E t \in TimeRanges :
         /\ time_range_minutes' = t
         /\ healResult' = HealErrorResult(t)
    /\ healPc' = "done"
    /\ UNCHANGED <<func_error_counts, healIdx, func_name, healItems>>
    /\ UNCHANGED <<dsVars, simVars, semVars, extVars>>

\* healer.py:301-308: the aggregate over error_code or search_executions
\* raises for one function
get_healable_functions_raise ==
    /\ healPc = "loop"
    /\ healIdx < Len(func_error_counts)
    /\ healIdx' = healIdx + 1
    /\ func_name' = func_error_counts[healIdx + 1].function_name
    /\ healPc' = "done"
    /\ healResult' = HealErrorResult(time_range_minutes)
    /\ UNCHANGED <<time_range_minutes, func_error_counts, healItems>>
    /\ UNCHANGED <<dsVars, simVars, semVars, extVars>>

\* healer.py:293-299
get_healable_functions_return ==
    /\ healPc = "loop"
    /\ healIdx = Len(func_error_counts)
    /\ healPc' = "done"
    /\ healResult' =
          LET sorted == SortedBy(healItems, ErrorCountKeys(healItems), TRUE) IN
          [kind |-> "dict", items |-> sorted, total |-> Len(sorted),
           time_range_minutes |-> time_range_minutes]
    /\ UNCHANGED <<time_range_minutes, func_error_counts, healIdx, func_name,
                   healItems>>
    /\ UNCHANGED <<dsVars, simVars, semVars, extVars>>

HealNext ==
    \/ get_healable_functions_begin
    \/ get_healable_functions_iterate
    \/ get_healable_functions_unavailable
    \/ get_healable_functions_raise
    \/ get_healable_functions_return

(***************************************************************************)
(* HealerService.batch_diagnose_async                                      *)
(*                                                                         *)
(* gather runs one task diagnose_with_limit per function name.  A task     *)
(* takes a permit of the semaphore, submits diagnose_and_heal to the       *)
(* ThreadPoolExecutor and awaits it under wait_for; the executor runs a    *)
(* submitted call when one of its max_workers threads is free.  A timeout  *)
(* cancels a call that has not started; a call that is running cannot be   *)
(* cancelled and goes on in its thread.                                    *)
(***************************************************************************)
BatchNames == SeqsUpTo(FunctionNames, MaxBatch)
\* what diagnose_and_heal may do: return a dict with this status, or raise
WorkOutcomes == {"success", "no_errors", "error", "raised"}

\* the calls that occupy a thread of the executor
RunningWork == {i \in 1..Len(workItem) : workItem[i] = "running"}

\* mutant of ExecutorHasFreeThread: the executor starts every call at once
ExecutorHasFreeThread_Unbounded == TRUE

\* ThreadPoolExecutor(max_workers=max_concurrent), healer.py:374
ExecutorHasFreeThread == Cardinality(RunningWork) < max_concurrent

\* healer.py:391-398, 400-415: the dict a task returns
TaskDict(name, st) == [function_name |-> name, status |-> st]

BatchInit ==
    /\ batchPc = "idle"
    /\ batch_names = <<>>
    /\ max_concurrent = 0
    /\ semaphore = 0
    /\ taskPc = <<>>
    /\ workItem = <<>>
    /\ workOutcome = <<>>
    /\ taskResult = <<>>
    /\ batchResult = NoResult

\* healer.py:373-374, 418: the semaphore, the executor and the tasks
batch_diagnose_async_begin ==
    /\ batchPc = "idle"
    /\ \E names \in BatchNames, m \in 1..MaxConcurrent :
         /\ batch_names' = names
         /\ max_concurrent' = m
         /\ semaphore' = m
         /\ taskPc' = [i \in 1..Len(names) |-> "waiting"]
         /\ workItem' = [i \in 1..Len(names) |-> "none"]
         /\ workOutcome' = [i \in 1..Len(names) |-> ""]
         /\ taskResult' = [i \in 1..Len(names) |-> NoResult]
    /\ batchPc' = "gather"
    /\ UNCHANGED batchResult
    /\ UNCHANGED <<coreVars, usageVars, connVars>>

\* healer.py:377-389: a task takes a permit and submits its call
task_submit ==
    /\ batchPc = "gather"
    /\ \E i \in 1..Len(batch_names) :
         /\ taskPc[i] = "waiting"
         /\ semaphore > 0
         /\ semaphore' = semaphore - 1
         /\ taskPc' = [taskPc EXCEPT ![i] = "awaiting"]
         /\ workItem' = [workItem EXCEPT ![i] = "queued"]
    /\ UNCHANGED <<batchPc, batch_names, max_concurrent, workOutcome, taskResult,
                   batchResult>>
    /\ UNCHANGED <<coreVars, usageVars, connVars>>

\* a thread of the executor takes a submitted call
executor_start ==
    /\ \E i \in 1..Len(batch_names) :
         /\ workItem[i] = "queued"
         /\ ExecutorHasFreeThread
         /\ workItem' = [workItem EXCEPT ![i] = "running"]
    /\ UNCHANGED <<batchPc, batch_names, max_concurrent, semaphore, taskPc,
                   workOutcome, taskResult, batchResult>>
    /\ UNCHANGED <<coreVars, usageVars, connVars>>

\* healer.py:383-387: diagnose_and_heal ends in its thread, whether or not
\* its task still waits for it
executor_finish ==
    /\ \E i \in 1..Len(batch_names), outcome \in WorkOutcomes :
         /\ workItem[i] = "running"
         /\ workItem' = [workItem EXCEPT ![i] = "finished"]
         /\ workOutcome' = [workOutcome EXCEPT ![i] = outcome]
    /\ UNCHANGED <<batchPc, batch_names, max_concurrent, semaphore, taskPc,
                   taskResult, batchResult>>
    /\ UNCHANGED <<coreVars, usageVars, connVars>>

\* healer.py:391-398 and 408-415: the awaited call ended; the task returns
\* its dict and gives the permit back
task_return ==
    /\ batchPc = "gather"
    /\ \E i \in 1..Len(batch_names) :
         /\ taskPc[i] = "awaiting"
         /\ workItem[i] = "finished"
         /\ taskResult' = [taskResult EXCEPT ![i] =
               TaskDict(batch_names[i],
                        IF workOutcome[i] = "raised" THEN "error"
                        ELSE workOutcome[i])]
         /\ taskPc' = [taskPc EXCEPT ![i] = "returned"]
    /\ semaphore' = semaphore + 1
    /\ UNCHANGED <<batchPc, batch_names, max_concurrent, workItem, workOutcome,
                   batchResult>>
    /\ UNCHANGED <<coreVars, usageVars, connVars>>

\* healer.py:400-407: wait_for times out; a call not yet started is
\* cancelled, a running call keeps its thread
task_timeout ==
    /\ batchPc = "gather"
    /\ \E i \in 1..Len(batch_names) :
         /\ taskPc[i] = "awaiting"
         /\ workItem[i] \in {"queued", "running"}
         /\ workItem' = [workItem EXCEPT ![i] =
               IF workItem[i] = "queued" THEN "cancelled" ELSE "running"]
         /\ taskResult' = [taskResult EXCEPT ![i] =
               TaskDict(batch_names[i], "error")]
         /\ taskPc' = [taskPc EXCEPT ![i] = "returned"]
    /\ semaphore' = semaphore + 1
    /\ UNCHANGED <<batchPc, batch_names, max_concurrent, workOutcome, batchResult>>
    /\ UNCHANGED <<coreVars, usageVars, connVars>>

\* healer.py:419-433: gather returns the results in the order of the tasks
batch_diagnose_async_return ==
    /\ batchPc = "gather"
    /\ \A i \in 1..Len(batch_names) : taskPc[i] = "returned"
    /\ batchPc' = "done"
    /\ batchResult' =
          LET succeeded == Cardinality({i \in 1..Len(taskResult) :
                              taskResult[i].status \in {"success", "no_errors"}})
          IN  [kind |-> "dict", results |-> taskResult,
               total |-> Len(batch_names), succeeded |-> succeeded,
               failed |-> Len(taskResult) - succeeded]
    /\ UNCHANGED <<batch_names, max_concurrent, semaphore, taskPc, workItem,
                   workOutcome, taskResult>>
    /\ UNCHANGED <<coreVars, usageVars, connVars>>

BatchNext ==
    \/ batch_diagnose_async_begin
    \/ task_submit
    \/ executor_start
    \/ executor_finish
    \/ task_return
    \/ task_timeout
    \/ batch_diagnose_async_return

(***************************************************************************)
(* plan_service and the three diagnose endpoints                           *)
(*                                                                         *)
(* Every request has its own database session (get_db).  It calls          *)
(* check_can_use_ai, runs the diagnosis, then calls increment_usage once   *)
(* per success.  The session keeps the AiUsage object it has loaded        *)
(* (expire_on_commit=False): a later SELECT of the same row returns that   *)
(* object with the attributes it already has.  Requests of one user        *)
(* interleave between their database statements.                           *)
(***************************************************************************)
Requests == 1..MaxRequests
EndpointKinds == {"diagnose", "batch", "function"}
NoRow == -1
NotLoaded == -1
DiagnosisStatuses == {"success", "no_errors", "error"}

\* plan_service.py:18-25
get_usage_today(row) == IF row = NoRow THEN 0 ELSE row

\* plan_service.py:46-51
check_can_use_ai(user_plan, row) ==
    IF user_plan = "pro" THEN TRUE ELSE get_usage_today(row) < FREE_DAILY_LIMIT

UsageInit ==
    /\ plan = "free"    \* the user stays on the free plan
    /\ usage_row = NoRow
    /\ reqPc = [r \in Requests |-> "idle"]
    /\ reqKind = [r \in Requests |-> "diagnose"]
    /\ reqLoaded = [r \in Requests |-> NotLoaded]
    /\ reqPending = [r \in Requests |-> 0]
    /\ reqResponse = [r \in Requests |-> 0]

\* endpoints/healer.py:56-57, 85-86, 117-118: a new request checks the plan;
\* the SELECT of get_usage_today leaves the row's object in the session
request_check ==
    /\ \E r \in Requests, kind \in EndpointKinds :
         /\ reqPc[r] = "idle"
         /\ reqKind' = [reqKind EXCEPT ![r] = kind]
         /\ reqPending' = [reqPending EXCEPT ![r] = 0]
         /\ IF check_can_use_ai(plan, usage_row)
            THEN /\ reqPc' = [reqPc EXCEPT ![r] = "working"]
                 /\ reqLoaded' = [reqLoaded EXCEPT ![r] =
                       IF plan = "pro" THEN NotLoaded ELSE usage_row]
                 /\ reqResponse' = [reqResponse EXCEPT ![r] = 0]
            ELSE /\ reqResponse' = [reqResponse EXCEPT ![r] = 429]
                 /\ UNCHANGED <<reqPc, reqLoaded>>
    /\ UNCHANGED <<plan, usage_row>>
    /\ UNCHANGED <<coreVars, batchVars, connVars>>

\* endpoints/healer.py:64-73 and 125-134: one diagnosis; a "success" is counted
request_diagnose ==
    /\ \E r \in Requests, status \in DiagnosisStatuses :
         /\ reqPc[r] = "working"
         /\ reqKind[r] \in {"diagnose", "function"}
         /\ IF status = "success"
            THEN /\ reqPending' = [reqPending EXCEPT ![r] = 1]
                 /\ reqPc' = [reqPc EXCEPT ![r] = "increment"]
                 /\ UNCHANGED <<reqLoaded, reqResponse>>
            ELSE /\ reqPc' = [reqPc EXCEPT ![r] = "idle"]
                 /\ reqLoaded' = [reqLoaded EXCEPT ![r] = NotLoaded]
                 /\ reqResponse' = [reqResponse EXCEPT ![r] = 200]
                 /\ UNCHANGED reqPending
    /\ UNCHANGED <<plan, usage_row, reqKind>>
    /\ UNCHANGED <<coreVars, batchVars, connVars>>

\* endpoints/healer.py:93-104: the batch; every "success" and "no_errors" of
\* batch_diagnose_async is counted
request_batch_diagnose ==
    /\ \E r \in Requests, total \in 0..MaxBatch :
         \E succeeded \in 0..total :
             /\ reqPc[r] = "working"
             /\ reqKind[r] = "batch"
             /\ IF succeeded > 0
                THEN /\ reqPending' = [reqPending EXCEPT ![r] = succeeded]
                     /\ reqPc' = [reqPc EXCEPT ![r] = "increment"]
                     /\ UNCHANGED <<reqLoaded, reqResponse>>
                ELSE /\ reqPc' = [reqPc EXCEPT ![r] = "idle"]
                     /\ reqLoaded' = [reqLoaded EXCEPT ![r] = NotLoaded]
                     /\ reqResponse' = [reqResponse EXCEPT ![r] = 200]
                     /\ UNCHANGED reqPending
    /\ UNCHANGED <<plan, usage_row, reqKind>>
    /\ UNCHANGED <<coreVars, batchVars, connVars>>

\* plan_service.py:30-34: the SELECT of increment_usage; a row the session has
\* not loaded yet is loaded as it is now
increment_usage_select ==
    /\ \E r \in Requests :
         /\ reqPc[r] = "increment"
         /\ reqLoaded' = [reqLoaded EXCEPT ![r] =
               IF reqLoaded[r] = NotLoaded THEN usage_row ELSE reqLoaded[r]]
         /\ reqPc' = [reqPc EXCEPT ![r] = "commit"]
    /\ UNCHANGED <<plan, usage_row, reqKind, reqPending, reqResponse>>
    /\ UNCHANGED <<coreVars, batchVars, connVars>>

\* plan_service.py:35-43: call_count += 1 on the loaded object, or a new row
\* with call_count 1, then the commit; the unique constraint of AiUsage
\* (ai_usage.py) rejects a second row of the day and the request fails
increment_usage_commit ==
    /\ \E r \in Requests :
         /\ reqPc[r] = "commit"
         /\ IF reqLoaded[r] = NotLoaded /\ usage_row # NoRow
            THEN /\ reqPc' = [reqPc EXCEPT ![r] = "idle"]
                 /\ reqLoaded' = [reqLoaded EXCEPT ![r] = NotLoaded]
                 /\ reqPending' = [reqPending EXCEPT ![r] = 0]
                 /\ reqResponse' = [reqResponse EXCEPT ![r] = 500]
                 /\ UNCHANGED usage_row
            ELSE LET count == IF reqLoaded[r] = NotLoaded THEN 1
                              ELSE reqLoaded[r] + 1
                     last == reqPending[r] = 1
                 IN  /\ count <= MaxCallCount
                     /\ usage_row' = count
                     /\ reqPending' = [reqPending EXCEPT ![r] = @ - 1]
                     /\ reqPc' = [reqPc EXCEPT ![r] =
                           IF last THEN "idle" ELSE "increment"]
                     /\ reqLoaded' = [reqLoaded EXCEPT ![r] =
                           IF last THEN NotLoaded ELSE count]
                     /\ reqResponse' = [reqResponse EXCEPT ![r] =
                           IF last THEN 200 ELSE @]
    /\ UNCHANGED <<plan, reqKind>>
    /\ UNCHANGED <<coreVars, batchVars, connVars>>

UsageNext ==
    \/ request_check
    \/ request_diagnose
    \/ request_batch_diagnose
    \/ increment_usage_select
    \/ increment_usage_commit

(***************************************************************************)
(* The connection endpoints, get_user_connection, get_user_weaviate_client *)
(* and the client cache                                                    *)
(*                                                                         *)
(* Every request runs in its own session and transaction; requests of the  *)
(* user interleave between their database statements.  The database is    *)
(* PostgreSQL (config.py:39) at its default isolation level, read          *)
(* committed: a statement sees the rows committed when it starts; an       *)
(* UPDATE or DELETE locks the rows it writes until its transaction ends;   *)
(* an UPDATE that finds a row locked waits, then writes the newest version *)
(* of the rows it had found; the writes of a transaction show at its       *)
(* commit.  Connection ids are uuids: the id of a deleted connection is    *)
(* not used again.                                                         *)
(***************************************************************************)
ConnIds == 1..MaxConnections
ConnRequests == 1..MaxConnRequests
Hosts == {"h1", "h2"}   \* stands for connection_type, host, ports and api_key
NewConn == [state |-> "new"]
DeletedConn == [state |-> "deleted"]
ConnRow(active, h) == [state |-> "row", is_active |-> active, host |-> h]
NoClient == "none"

\* WHERE WeaviateConnection.user_id == user.id
UserRows(table) == {id \in ConnIds : table[id].state = "row"}

\* WHERE user_id == user.id AND is_active == True
ActiveRows(table) == {id \in UserRows(table) : table[id].is_active}

\* the rows that open transactions of other requests have locked
LockedByOthers(r) == UNION {cxLocked[q] : q \in ConnRequests \ {r}}

\* connections.py:214-218: the rows the UPDATE sets to is_active = False: the
\* rows it found at its start that are still there
Deactivated(seen, table) == seen \cap UserRows(table)

\* the end of a request: its transaction is over, its locks are free
EndRequest(r) ==
    /\ cxPc' = [cxPc EXCEPT ![r] = "idle"]
    /\ cxSeen' = [cxSeen EXCEPT ![r] = {}]
    /\ cxLocked' = [cxLocked EXCEPT ![r] = {}]

ConnInit ==
    /\ connections = [id \in ConnIds |-> NewConn]
    /\ cxPc = [r \in ConnRequests |-> "idle"]
    /\ cxOp = [r \in ConnRequests |-> "activate"]
    /\ cxId = [r \in ConnRequests |-> 1]
    /\ cxSeen = [r \in ConnRequests |-> {}]
    /\ cxLocked = [r \in ConnRequests |-> {}]
    /\ connResult = [kind |-> "none"]
    /\ client_cache = [id \in ConnIds |-> NoClient]
    /\ clientResult = [kind |-> "none"]

\* connections.py:108-141: a new row, never active
create_connection ==
    /\ \E id \in ConnIds, h \in Hosts :
         /\ connections[id] = NewConn
         /\ \A other \in ConnIds : other < id => connections[other] # NewConn
         /\ connections' = [connections EXCEPT ![id] = ConnRow(FALSE, h)]
    /\ UNCHANGED <<cxPc, cxOp, cxId, cxSeen, cxLocked, connResult,
                   client_cache, clientResult>>
    /\ UNCHANGED <<coreVars, batchVars, usageVars>>

\* connections.py:152-160, 179-187, 203-211: the SELECT by id of
\* update_connection, delete_connection and activate_connection; 404 if the
\* connection is not there
request_select(r) ==
    /\ \E op \in {"activate", "update", "delete"}, id \in ConnIds :
         /\ cxPc[r] = "idle"
         /\ connections[id] # NewConn
         /\ cxOp' = [cxOp EXCEPT ![r] = op]
         /\ cxId' = [cxId EXCEPT ![r] = id]
         /\ IF id \in UserRows(connections)
            THEN /\ cxPc' = [cxPc EXCEPT ![r] = "selected"]
                 /\ UNCHANGED <<cxSeen, cxLocked>>
            ELSE EndRequest(r)
    /\ UNCHANGED <<connections, connResult, client_cache, clientResult>>
    /\ UNCHANGED <<coreVars, batchVars, usageVars>>

\* connections.py:162-169: the changed columns are written and committed;
\* is_active is not a field of ConnectionUpdate.  The cache is not touched.
update_connection_commit(r) ==
    /\ \E h \in Hosts :
         /\ cxPc[r] = "selected"
         /\ cxOp[r] = "update"
         /\ cxId[r] \notin LockedByOthers(r)
         /\ IF cxId[r] \in UserRows(connections)
            THEN /\ connections' = [connections EXCEPT ![cxId[r]].host = h]
                 /\ EndRequest(r)
            ELSE /\ EndRequest(r)
                 /\ UNCHANGED connections
    /\ UNCHANGED <<cxOp, cxId, connResult, client_cache, clientResult>>
    /\ UNCHANGED <<coreVars, batchVars, usageVars>>

\* connections.py:189-192
delete_connection_commit(r) ==
    /\ cxPc[r] = "selected"
    /\ cxOp[r] = "delete"
    /\ cxId[r] \notin LockedByOthers(r)
    /\ IF cxId[r] \in UserRows(connections)
       THEN /\ connections' = [connections EXCEPT ![cxId[r]] = DeletedConn]
            /\ EndRequest(r)
       ELSE /\ EndRequest(r)
            /\ UNCHANGED connections
    /\ UNCHANGED <<cxOp, cxId, connResult, client_cache, clientResult>>
    /\ UNCHANGED <<coreVars, batchVars, usageVars>>

\* connections.py:213-218: UPDATE ... SET is_active = False WHERE user_id
\* finds the rows of the user committed at this moment; it writes them at
\* once if no other transaction holds one of them, else it waits
activate_connection_update(r) ==
    /\ cxPc[r] = "selected"
    /\ cxOp[r] = "activate"
    /\ LET seen == UserRows(connections)
       IN  IF seen \cap LockedByOthers(r) = {}
           THEN /\ cxLocked' = [cxLocked EXCEPT ![r] = Deactivated(seen, connections)]
                /\ cxPc' = [cxPc EXCEPT ![r] = "deactivated"]
                /\ UNCHANGED cxSeen
           ELSE /\ cxSeen' = [cxSeen EXCEPT ![r] = seen]
                /\ cxPc' = [cxPc EXCEPT ![r] = "updating"]
                /\ UNCHANGED cxLocked
    /\ UNCHANGED <<connections, cxOp, cxId, connResult, client_cache, clientResult>>
    /\ UNCHANGED <<coreVars, batchVars, usageVars>>

\* the waiting UPDATE goes on once no other transaction holds a row it found;
\* it writes the newest version of these rows, not the rows added since it
\* started, and holds them until the commit
activate_connection_deactivated(r) ==
    /\ cxPc[r] = "updating"
    /\ cxSeen[r] \cap LockedByOthers(r) = {}
    /\ cxLocked' = [cxLocked EXCEPT ![r] = Deactivated(cxSeen[r], connections)]
    /\ cxPc' = [cxPc EXCEPT ![r] = "deactivated"]
    /\ UNCHANGED <<connections, cxOp, cxId, cxSeen, connResult, client_cache,
                   clientResult>>
    /\ UNCHANGED <<coreVars, batchVars, usageVars>>

\* connections.py:220-224: connection.is_active = True is flushed and the
\* transaction commits; if the row was deleted before the UPDATE the flush
\* finds no row and the transaction is rolled back
activate_connection_commit(r) ==
    /\ cxPc[r] = "deactivated"
    /\ IF cxId[r] \in UserRows(connections)
       THEN /\ connections' =
                  [id \in ConnIds |->
                     IF id = cxId[r]
                     THEN [connections[id] EXCEPT !.is_active = TRUE]
                     ELSE IF id \in cxLocked[r]
                     THEN [connections[id] EXCEPT !.is_active = FALSE]
                     ELSE connections[id]]
            /\ EndRequest(r)
       ELSE /\ EndRequest(r)
            /\ UNCHANGED connections
    /\ UNCHANGED <<cxOp, cxId, connResult, client_cache, clientResult>>
    /\ UNCHANGED <<coreVars, batchVars, usageVars>>

\* dependencies.py:74-92: scalar_one_or_none raises when two rows match
get_user_connection ==
    /\ connResult' =
          LET active == ActiveRows(connections)
          IN  IF Cardinality(active) > 1 THEN [kind |-> "multiple"]
              ELSE IF active = {} THEN [kind |-> "400"]
              ELSE [kind |-> "connection", id |-> CHOOSE id \in active : TRUE]
    /\ UNCHANGED <<connections, cxPc, cxOp, cxId, cxSeen, cxLocked,
                   client_cache, clientResult>>
    /\ UNCHANGED <<coreVars, batchVars, usageVars>>

\* client_cache.py:17-19: the key is the id of the connection alone
make_cache_key(id, row) == id

\* dependencies.py:45-71 with client_cache.py:22-48: the active connection,
\* then the cached client if it is ready, else a new client made from the
\* connection; connecting may fail (502) after the unready client was removed
get_user_weaviate_client ==
    /\ \E is_ready \in BOOLEAN, connects \in BOOLEAN :
         LET active == ActiveRows(connections)
             id == CHOOSE a \in active : TRUE
             row == connections[id]
             key == make_cache_key(id, row)
         IN  IF Cardinality(active) > 1
             THEN /\ clientResult' = [kind |-> "multiple"]
                  /\ UNCHANGED client_cache
             ELSE IF active = {}
             THEN /\ clientResult' = [kind |-> "400"]
                  /\ UNCHANGED client_cache
             ELSE IF client_cache[key] # NoClient /\ is_ready
             THEN /\ clientResult' = [kind |-> "client", id |-> id,
                                      made_for |-> client_cache[key],
                                      host |-> row.host]
                  /\ UNCHANGED client_cache
             ELSE IF connects
             THEN /\ client_cache' = [client_cache EXCEPT ![key] = row.host]
                  /\ clientResult' = [kind |-> "client", id |-> id,
                                      made_for |-> row.host, host |-> row.host]
             ELSE /\ client_cache' = [client_cache EXCEPT ![key] = NoClient]
                  /\ clientResult' = [kind |-> "502"]
    /\ UNCHANGED <<connections, cxPc, cxOp, cxId, cxSeen, cxLocked, connResult>>
    /\ UNCHANGED <<coreVars, batchVars, usageVars>>

\* client_cache.py:14: TTLCache(maxsize=100, ttl=300) drops an entry when its
\* five minutes are over or the cache is full
cache_expire ==
    /\ \E key \in ConnIds :
         /\ client_cache[key] # NoClient
         /\ client_cache' = [client_cache EXCEPT ![key] = NoClient]
    /\ UNCHANGED <<connections, cxPc, cxOp, cxId, cxSeen, cxLocked, connResult,
                   clientResult>>
    /\ UNCHANGED <<coreVars, batchVars, usageVars>>

\* the requests of the user overlap
ConnectionsNext ==
    \/ create_connection
    \/ \E r \in ConnRequests : request_select(r)
    \/ \E r \in ConnRequests : update_connection_commit(r)
    \/ \E r \in ConnRequests : delete_connection_commit(r)
    \/ \E r \in ConnRequests : activate_connection_update(r)
    \/ \E r \in ConnRequests : activate_connection_deactivated(r)
    \/ \E r \in ConnRequests : activate_connection_commit(r)
    \/ get_user_connection

\* the user sends one connection request at a time: no UPDATE waits
ClientCacheNext ==
    \/ create_connection
    \/ request_select(1)
    \/ update_connection_commit(1)
    \/ delete_connection_commit(1)
    \/ activate_connection_update(1)
    \/ activate_connection_commit(1)
    \/ get_user_weaviate_client
    \/ cache_expire

\* the six operations of the service, one request per behaviour
SemNext ==
    \/ get_input_scatter
    \/ get_bottleneck_clusters
    \/ get_golden_coverage
    \/ recommend_with_diversity
    \/ get_hallucination_candidates
    \/ get_error_clusters

Init == DsInit /\ SimInit /\ SemInit /\ HealInit /\ BatchInit /\ UsageInit
        /\ ConnInit

SpecDrift == Init /\ [][DsNext]_vars

SpecSimulate == Init /\ [][simulate]_vars

SpecRecommend == Init /\ [][recommend_with_diversity]_vars

SpecCoverage == Init /\ [][get_golden_coverage]_vars

SpecHallucination == Init /\ [][get_hallucination_candidates]_vars

SpecScatter == Init /\ [][get_input_scatter]_vars

\* the two operations that project with PCA
ProjectionNext ==
    \/ get_input_scatter
    \/ get_golden_coverage

SpecProjection == Init /\ [][ProjectionNext]_vars

SpecBottleneck == Init /\ [][get_bottleneck_clusters]_vars

SpecBottleneckExample == Init /\ [][get_bottleneck_clusters_example]_vars

\* the two operations that cluster with KMeans
ClusteringNext ==
    \/ get_bottleneck_clusters
    \/ get_error_clusters

SpecClustering == Init /\ [][ClusteringNext]_vars

SpecErrorClusters == Init /\ [][get_error_clusters]_vars

SpecSemantic == Init /\ [][SemNext]_vars

SpecHealer == Init /\ [][HealNext]_vars

SpecBatch == Init /\ [][BatchNext]_vars

SpecUsage == Init /\ [][UsageNext]_vars

SpecConnections == Init /\ [][ConnectionsNext]_vars

SpecClientCache == Init /\ [][ClientCacheNext]_vars

(***************************************************************************)
(* Claims about the drift analyzer                                         *)
(***************************************************************************)
DriftStatuses == {"INSUFFICIENT_DATA", "NO_VECTOR", "NORMAL", "ANOMALY"}

\* C1 as stated: every emitted item has one of the four statuses, and its
\* status is ANOMALY if and only if its reported avg_distance (the value
\* rounded to 4 decimals) is greater than 0.3.
C1_AnomalyIffReportedAbove ==
    \A i \in 1..Len(items) :
        /\ items[i].status \in DriftStatuses
        /\ items[i].status = "ANOMALY" <=> items[i].avg_distance * 10 > DriftThreshold

\* C1 amended: every emitted item has one of the four statuses; the status of
\* a compared function is ANOMALY if and only if the unrounded average of the
\* kept distances is greater than 0.3; the reported avg_distance is that
\* average rounded to 4 decimals, so an item reporting more than 0.3 is
\* ANOMALY and an ANOMALY item reports at least 0.3.
C1_AnomalyIffAverageAbove ==
    /\ \A i \in 1..Len(items) :
        /\ items[i].status \in DriftStatuses
        /\ items[i].avg_distance * 10 > DriftThreshold => items[i].status = "ANOMALY"
        /\ items[i].status = "ANOMALY" => items[i].avg_distance * 10 >= DriftThreshold
        /\ items[i].status \in {"INSUFFICIENT_DATA", "NO_VECTOR"}
              => items[i].avg_distance = 0
    /\ (items # <<>> /\ items[Len(items)].status \in {"NORMAL", "ANOMALY"})
          => /\ items[Len(items)].status = "ANOMALY"
                  <=> (distances # <<>>
                       /\ SumSeq(distances) > DriftThreshold * Len(distances))
             /\ items[Len(items)].avg_distance = ReportedAvg(distances)

\* C1 witness: an ANOMALY item whose reported avg_distance is exactly 0.3
C1_Witness ==
    \E i \in 1..Len(items) :
        items[i].status = "ANOMALY" /\ items[i].avg_distance * 10 = DriftThreshold

\* C2 as stated: a simulate call made without an embedding credential returns
\* an error payload that never carries the verdict is_drift = false.
C2_NoFalseVerdictWithoutKey ==
    (simResult.kind = "dict" /\ Falsy(simCall.openai_api_key))
        => /\ "error" \in DOMAIN simResult
           /\ ("is_drift" \in DOMAIN simResult => simResult.is_drift # FALSE)

\* C3 as stated: when the store raises while one function is processed, the
\* batch is not aborted: every other function has its item in the result and
\* the failure is reported for the failing function only.
C3_FailureIsolatedPerFunction ==
    (dsPc = "done" /\ "error" \in DOMAIN dsResult /\ fname # "")
        => \A g \in RangeOf(function_names) \ {fname} :
             \E i \in 1..Len(dsResult.items) : dsResult.items[i].function_name = g

(***************************************************************************)
(* Claims about the nearest-neighbour analyses                             *)
(***************************************************************************)
CoverageDone == semCall.op = "get_golden_coverage" /\ semResult.kind = "dict"

\* number of "covered" executions, counted from the fetched distances
CoveredCount ==
    Cardinality({i \in 1..Len(semFetch.dists) : semFetch.dists[i] < CoverageThreshold})

\* C5 as stated: coverage_score is exactly covered / (number of execution
\* vectors), lies in [0,1], and is 0 when there is no golden vector.
C5_CoverageIsExactRatio ==
    CoverageDone =>
        /\ semResult.coverage_score >= 0 /\ semResult.coverage_score <= One
        /\ semResult.golden_count = 0 => semResult.coverage_score = 0
        /\ (semResult.golden_count > 0 /\ semResult.total_executions > 0)
              => semResult.coverage_score * semResult.total_executions
                   = CoveredCount * One

\* C5 amended: coverage_score is covered / (number of execution vectors)
\* rounded to 4 decimal places (so within 0.00005 of the ratio), lies in
\* [0,1], is 0 when there is no golden vector and also when there is no
\* execution vector; with 2 of 4 executions covered it is 0.5.
C5_CoverageIsRoundedRatio ==
    CoverageDone =>
        /\ semResult.coverage_score >= 0 /\ semResult.coverage_score <= One
        /\ semResult.golden_count = 0 => semResult.coverage_score = 0
        /\ semResult.total_executions = 0 => semResult.coverage_score = 0
        /\ (semResult.golden_count > 0 /\ semResult.total_executions > 0)
              => LET diff == semResult.coverage_score * semResult.total_executions
                             - CoveredCount * One
                 IN  2 * diff <= semResult.total_executions
                     /\ 2 * diff >= 0 - semResult.total_executions
        /\ (semResult.golden_count > 0 /\ semResult.total_executions = 4
             /\ CoveredCount = 2) => semResult.coverage_score * 2 = One

\* C5 witness: three executions, one of them covered, one exactly at 0.5
C5_Witness ==
    /\ CoverageDone
    /\ semResult.total_executions = 3 /\ semResult.golden_count > 0
    /\ CoveredCount = 1
    /\ \E i \in 1..Len(semFetch.dists) : semFetch.dists[i] = CoverageThreshold
    /\ semResult.coverage_score = 3333

RecommendDone == semCall.op = "recommend_with_diversity" /\ semResult.kind = "list"
WithGolden == RecommendDone /\ semFetch.has_golden

\* C6: recommend_with_diversity returns at most `limit` candidates and no two
\* of them have the same uuid.
C6_AtMostLimitNoDuplicates ==
    RecommendDone =>
        /\ Len(semResult.body) <= semCall.limit
        /\ \A p, q \in 1..Len(semResult.body) :
              p # q => semResult.body[p].uuid # semResult.body[q].uuid

\* C6 witness: 3 candidates, limit 4: the far half and the near half overlap
C6_Witness ==
    /\ WithGolden
    /\ semCall.limit = 4
    /\ Len(WithVectors(semFetch.objs)) = 3
    /\ Len(semResult.body) = 3

\* C7 as stated: with golden references, the first floor(limit/2) returned
\* candidates (or all, if fewer) are DISCOVERY and the others STEADY; a
\* candidate both rankings picked appears once, as DISCOVERY.
C7_DiscoveryFirstThenSteady ==
    WithGolden =>
        \A p \in 1..Len(semResult.body) :
            semResult.body[p].candidate_type =
                IF p <= semCall.limit \div 2 THEN "DISCOVERY" ELSE "STEADY"

\* the reported distance of fetched candidate i (place in exec_objs)
ReportedDist(i) == Round4(semFetch.dists[i], 1)
MaxReported ==
    LET S == {ReportedDist(i) : i \in 1..Len(semFetch.dists)}
        m == CHOOSE d \in S : \A e \in S : e <= d
    IN  IF m = 0 THEN One ELSE m

\* C8 as stated: with golden references every returned score is in [0,1] and
\* is exactly distance/max_distance (DISCOVERY) or 1 - distance/max_distance
\* (STEADY).
C8_ScoreIsExactQuotient ==
    WithGolden =>
        \A p \in 1..Len(semResult.body) :
            LET c == semResult.body[p] IN
            /\ c.score >= 0 /\ c.score <= One
            /\ c.candidate_type = "DISCOVERY"
                  => c.score * MaxReported = c.distance_to_nearest_golden * One
            /\ c.candidate_type = "STEADY"
                  => c.score * MaxReported
                       = (MaxReported - c.distance_to_nearest_golden) * One

\* C8 amended: with golden references every returned candidate is DISCOVERY
\* or STEADY, its score is in [0,1] and is distance/max_distance (DISCOVERY)
\* or 1 - distance/max_distance (STEADY) rounded to 4 decimal places, where
\* distance is the candidate's reported distance and max_distance the largest
\* reported distance (1 when that is 0); for distances [0.1,0.2,0.8,0.9] and
\* limit 4 the scores are [1.0, 0.8889] (discovery) and [0.8889, 0.7778].
C8_ScoreIsRoundedQuotient ==
    WithGolden =>
        /\ \A p \in 1..Len(semResult.body) :
            LET c == semResult.body[p]
                d == c.distance_to_nearest_golden
                i == CHOOSE k \in 1..Len(semFetch.dists) :
                        WithVectors(semFetch.objs)[k] = c.uuid
            IN
            /\ d = ReportedDist(i)
            /\ c.score >= 0 /\ c.score <= One
            /\ c.candidate_type \in {"DISCOVERY", "STEADY"}
            /\ c.candidate_type = "DISCOVERY"
                  => /\ 2 * (c.score * MaxReported - d * One) <= MaxReported
                     /\ 2 * (d * One - c.score * MaxReported) <= MaxReported
            /\ c.candidate_type = "STEADY"
                  => /\ 2 * (c.score * MaxReported - (MaxReported - d) * One)
                          <= MaxReported
                     /\ 2 * ((MaxReported - d) * One - c.score * MaxReported)
                          <= MaxReported
        /\ (semFetch.dists = <<10000, 20000, 80000, 90000>> /\ semCall.limit = 4)
              => /\ [p \in 1..4 |-> semResult.body[p].score]
                      = <<10000, 8889, 8889, 7778>>
                 /\ [p \in 1..4 |-> semResult.body[p].candidate_type]
                      = <<"DISCOVERY", "DISCOVERY", "STEADY", "STEADY">>

\* C8 witness: the distances of the claim's example, limit 4
C8_Witness ==
    /\ WithGolden
    /\ semFetch.dists = <<10000, 20000, 80000, 90000>>
    /\ semCall.limit = 4
    /\ Len(semResult.body) = 4

\* C4 as stated: in each of the six operations a failing vector-store fetch is
\* caught inside the operation and comes back as an error field beside an
\* empty/default body; no exception escapes.
C4_FetchFailureIsReturnedNotRaised ==
    (semCall.op # "none" /\ semFetch.kind = "failed")
        => /\ semResult.kind # "raised"
           /\ "error" \in DOMAIN semResult

HallucinationDone ==
    semCall.op = "get_hallucination_candidates" /\ semResult.kind = "list"

\* C9 as stated: the returned list is strictly descending by distance, has no
\* item whose distance is below the threshold, and at most `limit` items.
C9_StrictlyDescendingAboveThreshold ==
    HallucinationDone =>
        /\ \A p \in 1..(Len(semResult.body) - 1) :
              semResult.body[p].distance > semResult.body[p + 1].distance
        /\ \A p \in 1..Len(semResult.body) :
              semResult.body[p].distance * 10 >= semCall.threshold
        /\ Len(semResult.body) <= semCall.limit

\* C9 amended: the returned list is in non-increasing order of (reported)
\* distance, equal distances being allowed; every item is a fetched record
\* whose mean distance, before it is rounded to 4 decimals for the report,
\* is greater than the threshold; the list has at most `limit` items.
C9_DescendingAboveThreshold ==
    HallucinationDone =>
        /\ \A p \in 1..(Len(semResult.body) - 1) :
              semResult.body[p].distance >= semResult.body[p + 1].distance
        /\ \A p \in 1..Len(semResult.body) :
              \E i \in 1..Len(semFetch.avg_distances) :
                 /\ WithVectors(semFetch.objs)[i] = semResult.body[p].span_id
                 /\ semFetch.avg_distances[i] > semCall.threshold
                 /\ semResult.body[p].distance = Round4(semFetch.avg_distances[i], 1)
        /\ Len(semResult.body) <= semCall.limit

\* C9 witness: a list of three whose last two items have the same distance,
\* reported below a threshold that their unrounded distance exceeds
C9_Witness ==
    /\ HallucinationDone
    /\ Len(semResult.body) >= 3
    /\ semResult.body[1].distance > semResult.body[2].distance
    /\ semResult.body[2].distance = semResult.body[3].distance
    /\ semResult.body[3].distance * 10 < semCall.threshold

BottleneckDone ==
    semCall.op = "get_bottleneck_clusters" /\ semResult.kind = "list"

\* sum and number of the durations of cluster cid, from the fetched records
ClusterSum(cid) ==
    LET ov == WithVectors(semFetch.objs) IN
    SumOver([i \in 1..Len(ov) |-> semFetch.objs[ov[i]].duration_ms],
            Members(semFetch.labels, cid))
ClusterSize(cid) == Cardinality(Members(semFetch.labels, cid))
GlobalSum ==
    LET ov == WithVectors(semFetch.objs) IN
    SumSeq([i \in 1..Len(ov) |-> semFetch.objs[ov[i]].duration_ms])
GlobalSize == Len(semFetch.labels)

\* mean(a) > Factor * mean(b), for non-empty a and b given as sum and size
MeanExceeds(sa, na, factor, sb, nb) == sa * nb > factor * sb * na

\* C10 as stated: a cluster is flagged iff its mean duration is greater than
\* twice the mean duration of all vectors, and the clusters come in descending
\* order of mean duration.
C10_FlagAndOrderByMean ==
    (BottleneckDone /\ semResult.body # <<>>) =>
        /\ \A p \in 1..Len(semResult.body) :
              LET c == semResult.body[p] IN
              c.is_bottleneck <=>
                 (ClusterSize(c.cluster_id) > 0
                  /\ MeanExceeds(ClusterSum(c.cluster_id), ClusterSize(c.cluster_id),
                                 2, GlobalSum, GlobalSize))
        /\ \A p \in 1..(Len(semResult.body) - 1) :
              LET a == semResult.body[p].cluster_id
                  b == semResult.body[p + 1].cluster_id
              IN  (ClusterSize(a) > 0 /\ ClusterSize(b) > 0)
                    => ~MeanExceeds(ClusterSum(b), ClusterSize(b),
                                    1, ClusterSum(a), ClusterSize(a))

\* C10 amended: a cluster is flagged iff its unrounded mean duration is
\* greater than twice the unrounded mean duration of all vectors (a cluster
\* without members is never flagged); the clusters come in non-increasing
\* order of avg_duration_ms, the mean rounded to 2 decimals, clusters with
\* the same avg_duration_ms in cluster_id order.
C10_FlagByMeanOrderByReported ==
    (BottleneckDone /\ semResult.body # <<>>) =>
        /\ \A p \in 1..Len(semResult.body) :
              LET c == semResult.body[p] IN
              /\ c.is_bottleneck <=>
                   (ClusterSize(c.cluster_id) > 0
                    /\ MeanExceeds(ClusterSum(c.cluster_id), ClusterSize(c.cluster_id),
                                   2, GlobalSum, GlobalSize))
              /\ c.count = ClusterSize(c.cluster_id)
              /\ c.avg_duration_ms =
                   IF c.count = 0 THEN 0
                   ELSE RoundHalfEven(ClusterSum(c.cluster_id), c.count * 10)
        /\ \A p \in 1..(Len(semResult.body) - 1) :
              LET a == semResult.body[p]
                  b == semResult.body[p + 1]
              IN  \/ a.avg_duration_ms > b.avg_duration_ms
                  \/ /\ a.avg_duration_ms = b.avg_duration_ms
                     /\ a.cluster_id < b.cluster_id

\* C10 witness: a flagged cluster comes first, a cluster that is not flagged after it
C10_Witness ==
    /\ BottleneckDone
    /\ Len(semResult.body) = 2
    /\ semResult.body[1].is_bottleneck /\ semResult.body[1].cluster_id = 1
    /\ ~semResult.body[2].is_bottleneck /\ semResult.body[2].count = 2

(***************************************************************************)
(* Claims about the worked example of the bottleneck analysis              *)
(***************************************************************************)
ExampleDone ==
    /\ semCall.op = "get_bottleneck_clusters"
    /\ semCall.limit = ExampleLimit
    /\ semResult.kind = "list"

\* the durations of the example fall in two groups, well apart
IsHighDuration(d) == d >= 480000

\* KMeans put the three short executions in one cluster and the three long
\* ones in the other
SplitByDuration ==
    LET ov == WithVectors(semFetch.objs) IN
    /\ Len(semFetch.labels) = Cardinality(ExampleDurations)
    /\ \A i, j \in 1..Len(ov) :
          (semFetch.labels[i] = semFetch.labels[j])
             <=> (IsHighDuration(semFetch.objs[ov[i]].duration_ms)
                    <=> IsHighDuration(semFetch.objs[ov[j]].duration_ms))

\* the label KMeans gave to the long executions
HighClusterId ==
    LET ov == WithVectors(semFetch.objs) IN
    semFetch.labels[CHOOSE i \in 1..Len(ov) :
                        IsHighDuration(semFetch.objs[ov[i]].duration_ms)]

\* C11 as stated: with the durations [10, 12, 11, 500, 480, 510] clustered
\* with k = 2 into a low and a high cluster, the high cluster is flagged
\* is_bottleneck and the low cluster is not.
C11_HighClusterFlagged ==
    (ExampleDone /\ SplitByDuration) =>
        /\ Len(semResult.body) = 2
        /\ \A p \in 1..2 :
              semResult.body[p].is_bottleneck
                 <=> (semResult.body[p].cluster_id = HighClusterId)

\* C11 amended: with the durations [10, 12, 11, 500, 480, 510] clustered with
\* k = 2 into a low and a high cluster, the result lists the high cluster
\* (avg_duration_ms 496.67, count 3) before the low one (11.0, count 3) and
\* flags neither: the mean of the high cluster, 496.67 ms, is not greater
\* than twice the mean of all six, 2 * 253.83 ms.
C11_NeitherClusterFlagged ==
    (ExampleDone /\ SplitByDuration) =>
        /\ Len(semResult.body) = 2
        /\ semResult.body[1].cluster_id = HighClusterId
        /\ semResult.body[1].avg_duration_ms = 49667
        /\ semResult.body[1].count = 3
        /\ semResult.body[2].cluster_id = 1 - HighClusterId
        /\ semResult.body[2].avg_duration_ms = 1100
        /\ semResult.body[2].count = 3
        /\ \A p \in 1..2 : ~semResult.body[p].is_bottleneck

\* C11 witness: the six executions fetched in the order of the example, the
\* short ones labelled 0 and the long ones labelled 1
C11_Witness ==
    /\ ExampleDone
    /\ SplitByDuration
    /\ [i \in 1..6 |-> semFetch.objs[i].duration_ms]
          = <<10000, 12000, 11000, 500000, 480000, 510000>>
    /\ semFetch.labels = <<0, 0, 0, 1, 1, 1>>
    /\ Len(semResult.body) = 2

(***************************************************************************)
(* Claims about the partition made by the clustering operations            *)
(***************************************************************************)
ClusteringDone ==
    /\ semCall.op \in {"get_bottleneck_clusters", "get_error_clusters"}
    /\ semFetch.kind = "fetched"
    /\ semResult.kind = "list"

\* n: the number of usable vectors of the request
UsableCount == Len(WithVectors(semFetch.objs))

ResultCounts == [p \in 1..Len(semResult.body) |-> semResult.body[p].count]

\* C12: when k <= n usable vectors are clustered by get_bottleneck_clusters or
\* get_error_clusters, the result has exactly k entries, the cluster ids are
\* 0..k-1, each once, every entry counts the vectors KMeans labelled with its
\* id, and the counts sum to n.
C12_PartitionIntoKClusters ==
    (ClusteringDone /\ semCall.n_clusters <= UsableCount) =>
        /\ Len(semResult.body) = semCall.n_clusters
        /\ {semResult.body[p].cluster_id : p \in 1..Len(semResult.body)}
              = 0..(semCall.n_clusters - 1)
        /\ \A p \in 1..Len(semResult.body) :
              semResult.body[p].count
                 = Cardinality({i \in 1..UsableCount :
                                  semFetch.labels[i] = semResult.body[p].cluster_id})
        /\ SumSeq(ResultCounts) = UsableCount

\* C12 witness: error clustering of three vectors into two clusters of
\* different sizes
C12_Witness ==
    /\ ClusteringDone
    /\ semCall.op = "get_error_clusters"
    /\ semCall.n_clusters = 2
    /\ UsableCount = 3
    /\ ResultCounts = <<2, 1>>

\* a bottleneck clustering of three vectors, one cluster left empty
C12_WitnessEmptyCluster ==
    /\ ClusteringDone
    /\ semCall.op = "get_bottleneck_clusters"
    /\ semCall.n_clusters = 2
    /\ UsableCount = 3
    /\ \E p \in 1..2 : semResult.body[p].count = 0

\* C13: when get_bottleneck_clusters finds n usable vectors with
\* 0 < n < n_clusters, k is clamped to n and the result has one cluster per
\* vector: n entries whose counts sum to n.
C13_ClampedToVectorCount ==
    (BottleneckDone /\ semFetch.kind = "fetched"
       /\ 0 < UsableCount /\ UsableCount < semCall.n_clusters) =>
        /\ Len(semResult.body) = UsableCount
        /\ SumSeq(ResultCounts) = UsableCount

(***************************************************************************)
(* Claims about the projections                                            *)
(***************************************************************************)
ScatterDone ==
    /\ semCall.op = "get_input_scatter"
    /\ semFetch.kind = "fetched"
    /\ semResult.kind = "list"

\* C14: get_input_scatter returns exactly one point per usable vector, in the
\* order the records were fetched, when at least 2 fetched records carry a
\* usable vector, and an empty list when fewer than 2 do.
C14_OnePointPerUsableVector ==
    ScatterDone =>
        IF UsableCount >= 2
        THEN /\ Len(semResult.body) = UsableCount
             /\ \A p \in 1..UsableCount :
                   /\ semFetch.objs[semResult.body[p].props_of].has_vector
                   /\ \A q \in 1..(p - 1) :
                         semResult.body[q].props_of < semResult.body[p].props_of
        ELSE semResult.body = <<>>

\* C14 witness: three records fetched, the second without a vector; the two
\* points are those of the first and the third record
C14_Witness ==
    /\ ScatterDone
    /\ Len(semFetch.objs) = 3
    /\ ~semFetch.objs[2].has_vector
    /\ Len(semResult.body) = 2
    /\ semResult.body[1].props_of = 1
    /\ semResult.body[2].props_of = 3

\* a single usable vector among the fetched records: no point at all
C14_WitnessSingleVector ==
    /\ ScatterDone
    /\ UsableCount = 1
    /\ semResult.body = <<>>

\* the execution and golden records that kept a vector, in fetch order
RetainedExec == WithVectors(semFetch.objs)
RetainedGolden == WithVectors(semFetch.golden)

\* every point of get_input_scatter takes its coordinates from the row of the
\* record it takes its properties from, the p-th retained one
ScatterAligned ==
    \A p \in 1..Len(semResult.body) :
       /\ semResult.body[p].props_of = RetainedExec[p]
       /\ VectorRows(RetainedExec)[semResult.body[p].coords_row]
             = semResult.body[p].props_of

\* the same for get_golden_coverage, the retained executions first and the
\* retained golden records after them
CoverageAligned ==
    \A p \in 1..Len(semResult.scatter) :
       LET pt == semResult.scatter[p] IN
       /\ pt.props_of = AllVectors(RetainedExec, RetainedGolden)[p]
       /\ AllVectors(RetainedExec, RetainedGolden)[pt.coords_row] = pt.props_of
       /\ pt.is_golden <=> (p > semResult.total_executions)

\* C15 as stated: in get_input_scatter and get_golden_coverage the i-th point
\* carries the coordinates of the i-th retained vector and the properties of
\* that record; the coverage scatter has total_executions + golden_count
\* points, the first total_executions with is_golden false, the rest true.
C15_AlignedAndComplete ==
    /\ ScatterDone => ScatterAligned
    /\ (CoverageDone /\ semFetch.kind = "fetched") =>
          /\ CoverageAligned
          /\ Len(semResult.scatter)
                = semResult.total_executions + semResult.golden_count

\* C15 amended: the alignment holds for every emitted point of both
\* operations; the coverage scatter has total_executions + golden_count points
\* when at least one execution has a usable vector, and is empty when none
\* has, whatever golden_count is.
C15_AlignedAndCompleteWithExecutions ==
    /\ ScatterDone => ScatterAligned
    /\ (CoverageDone /\ semFetch.kind = "fetched") =>
          /\ CoverageAligned
          /\ semResult.total_executions = Len(RetainedExec)
          /\ semResult.golden_count = Len(RetainedGolden)
          /\ Len(semResult.scatter)
                = IF RetainedExec = <<>> THEN 0
                  ELSE semResult.total_executions + semResult.golden_count

\* C15 witness: a coverage request whose fetches both contain a record
\* without a vector ahead of records with one; three points come back
C15_Witness ==
    /\ CoverageDone /\ semFetch.kind = "fetched"
    /\ Len(semFetch.objs) = 3 /\ ~semFetch.objs[1].has_vector
    /\ Len(semFetch.golden) = 2 /\ ~semFetch.golden[1].has_vector
    /\ Len(semResult.scatter) = 3
    /\ semResult.scatter[3].is_golden
    /\ semResult.scatter[3].props_of = <<"golden", 2>>

(***************************************************************************)
(* Claims about the shape of the drift summary                             *)
(***************************************************************************)
HasError(result) == "error" \in DOMAIN result

\* C17: get_drift_summary never raises: every call returns a dict; when the
\* store is unavailable the dict carries one top-level error with items = []
\* and total = 0; and in every result total is the number of items.
C17_SummaryNeverRaises ==
    /\ dsResult.kind \in {"none", "dict"}
    /\ (dsPc = "done") =>
          /\ dsResult.kind = "dict"
          /\ dsResult.total = Len(dsResult.items)
          /\ HasError(dsResult) => (dsResult.items = <<>> /\ dsResult.total = 0)
          /\ ~HasError(dsResult) => dsResult.items = items
    /\ (dsPc = "done" /\ idx < Len(function_names)) => HasError(dsResult)

\* C17 witness: the store fails on the second function, after an item was
\* gathered for the first; the result is the error dict
C17_Witness ==
    /\ dsPc = "done"
    /\ Len(items) = 1 /\ idx = 2
    /\ HasError(dsResult)
    /\ dsResult.items = <<>> /\ dsResult.total = 0

\* the store is unavailable from the first query on
C17_WitnessUnavailable ==
    /\ dsPc = "done" /\ idx = 0 /\ function_names = <<>>
    /\ HasError(dsResult)

\* a summary of two functions
C17_WitnessTwoItems ==
    /\ dsPc = "done" /\ ~HasError(dsResult)
    /\ dsResult.total = 2

(***************************************************************************)
(* Claims about the healable-function scan                                 *)
(***************************************************************************)
\* C18 as stated: when gathering the data of one function raises, the scan is
\* not aborted: the other functions with errors are still listed in items.
C18_ScanIsolatesFailures ==
    (healPc = "done" /\ HasError(healResult) /\ func_name # "")
        => \A i \in 1..Len(func_error_counts) :
              func_error_counts[i].function_name # func_name
                 => \E p \in 1..Len(healResult.items) :
                       healResult.items[p].function_name
                          = func_error_counts[i].function_name

(***************************************************************************)
(* Claims about the result of a simulation                                 *)
(***************************************************************************)
SimulateResultKeys ==
    {"is_drift", "avg_distance", "nearest_uuid", "k", "threshold",
     "input_text", "function_name"}

\* the distances near_vector reported during the call
SimDistances ==
    LET kept == SelectSeq(simFetch.objects, LAMBDA o : o.distance # NoDistance)
    IN  [i \in 1..Len(kept) |-> kept[i].distance]

\* C19 as stated: every result of simulate that is not an error contains
\* is_drift, avg_distance, the nearest id, k, threshold, input_text and
\* function_name; k, threshold, input_text and function_name are the caller's
\* values; is_drift is true exactly when the average distance is greater than
\* the caller's threshold.  This also holds when the target function has no
\* stored vectors.
C19_ResultCompleteAndEchoesCall ==
    (simResult.kind = "dict" /\ ~HasError(simResult)) =>
        /\ SimulateResultKeys \subseteq DOMAIN simResult
        /\ simResult.k = simCall.k
        /\ simResult.threshold = simCall.threshold
        /\ simResult.input_text = simCall.text
        /\ simResult.function_name = simCall.function_name
        /\ simResult.is_drift <=> AvgExceeds(SimDistances, simCall.threshold)

(***************************************************************************)
(* Claims about recommendations without a golden reference                 *)
(***************************************************************************)
\* C20: when no golden reference is available, recommend_with_diversity
\* returns the first min(limit, n) fetched candidates (the fetched records
\* with a vector) in fetch order, each of type DISCOVERY with score 1.0, and
\* makes no discovery/steady split.
C20_NoGoldenAllDiscovery ==
    (RecommendDone /\ semFetch.kind = "fetched" /\ ~semFetch.has_golden) =>
        LET fetched == WithVectors(semFetch.objs) IN
        /\ Len(semResult.body) = Min(semCall.limit, Len(fetched))
        /\ \A p \in 1..Len(semResult.body) :
              /\ semResult.body[p].uuid = fetched[p]
              /\ semResult.body[p].candidate_type = "DISCOVERY"
              /\ semResult.body[p].score = One

\* C20 witness: no golden reference, limit 2, four records fetched of which
\* the first has no vector; the second and third come back
C20_Witness ==
    /\ RecommendDone /\ semFetch.kind = "fetched" /\ ~semFetch.has_golden
    /\ semCall.limit = 2
    /\ Len(semFetch.objs) = 4
    /\ WithVectors(semFetch.objs) = <<2, 3, 4>>
    /\ Len(semResult.body) = 2
    /\ semResult.body[1].uuid = 2 /\ semResult.body[2].uuid = 3

(***************************************************************************)
(* Claims about the error clusters                                         *)
(***************************************************************************)
ErrorClustersDone ==
    /\ semCall.op = "get_error_clusters"
    /\ semFetch.kind = "fetched"
    /\ semResult.kind = "list"

\* C21: when get_error_clusters finds fewer usable error vectors than
\* n_clusters, it returns one singleton cluster per vector: count 1, and
\* cluster_id the index of the vector among the usable vectors in fetch
\* order, the entry describing that very record.
C21_SingletonPerVector ==
    (ErrorClustersDone /\ UsableCount < semCall.n_clusters) =>
        /\ Len(semResult.body) = UsableCount
        /\ \A p \in 1..UsableCount :
              LET o == semFetch.objs[WithVectors(semFetch.objs)[p]] IN
              /\ semResult.body[p].cluster_id = p - 1
              /\ semResult.body[p].count = 1
              /\ semResult.body[p].error_codes = {o.error_code} \ {""}
              /\ semResult.body[p].functions = {o.function_name} \ {""}
              /\ semResult.body[p].representative_error.id = o.error_message.id

\* C21 witness: n_clusters = 3, three records fetched, the first without a
\* vector; two singletons come back, numbered 0 and 1
C21_Witness ==
    /\ ErrorClustersDone
    /\ semCall.n_clusters = 3
    /\ Len(semFetch.objs) = 3 /\ ~semFetch.objs[1].has_vector
    /\ Len(semResult.body) = 2
    /\ semResult.body[1].cluster_id = 0 /\ semResult.body[2].cluster_id = 1
    /\ semResult.body[1].error_codes # semResult.body[2].error_codes

\* the members of cluster cid, as places among the usable vectors, and the
\* record at such a place
ErrorMembers(cid) == {i \in 1..UsableCount : semFetch.labels[i] = cid}
UsableObj(i) == semFetch.objs[WithVectors(semFetch.objs)[i]]
FirstOf(S) == CHOOSE i \in S : \A j \in S : i <= j

ErrorSetsAndCounts ==
    \A p \in 1..Len(semResult.body) :
       LET c == semResult.body[p]
           members == ErrorMembers(c.cluster_id)
       IN  /\ c.count = Cardinality(members)
           /\ c.error_codes = {UsableObj(i).error_code : i \in members} \ {""}
           /\ c.functions = {UsableObj(i).function_name : i \in members} \ {""}

PassDone == idx > 0 /\ Len(items) = idx /\ dsPc = "loop"
LastItem == items[Len(items)]

\* C23: a function with fewer than 2 recent records gets INSUFFICIENT_DATA
\* (checked first); a function with at least 2 recent records whose newest
\* record has no usable vector gets NO_VECTOR; in both cases avg_distance is
\* 0.0 and near_vector is not asked for that function.
C23_EarlyStatusesWithoutQuery ==
    PassDone =>
        /\ LastItem.function_name = fname
        /\ LastItem.sample_count = recent.n
        /\ (recent.n < 2) <=> (LastItem.status = "INSUFFICIENT_DATA")
        /\ (recent.n >= 2 /\ ~recent.latest_has_vector)
              <=> (LastItem.status = "NO_VECTOR")
        /\ LastItem.status \in {"INSUFFICIENT_DATA", "NO_VECTOR"}
              => (LastItem.avg_distance = 0 /\ ~neighbors.asked)
        /\ LastItem.status \in {"NORMAL", "ANOMALY"} => neighbors.asked

\* C23 witness: the second function has a single recent record, without a
\* vector, after a first function that was compared
C23_Witness ==
    /\ PassDone /\ idx = 2
    /\ items[1].status \in {"NORMAL", "ANOMALY"}
    /\ recent.n = 1 /\ ~recent.latest_has_vector
    /\ LastItem.status = "INSUFFICIENT_DATA"
    /\ ~neighbors.asked

\* two recent records, the newest without a vector
C23_WitnessNoVector ==
    /\ PassDone
    /\ recent.n = 2 /\ ~recent.latest_has_vector
    /\ LastItem.status = "NO_VECTOR"

\* C24 as stated: the average of a function is computed over at most 5
\* distances, each from the probe to a different record among the function's
\* most recent fetched records, and the probe's distance to itself is never
\* included.
C24_DistancesWithinRecentWindow ==
    (PassDone /\ neighbors.asked) =>
        /\ Len(distances) <= 5
        /\ Len(distances)
              <= neighbors.returned - (IF neighbors.probe_returned THEN 1 ELSE 0)
        /\ neighbors.kept_outside = 0

(***************************************************************************)
(* Claims about the scatter of the coverage analysis                       *)
(***************************************************************************)
\* C25 as stated: get_golden_coverage returns an empty scatter when the
\* execution and golden vectors together number fewer than 2.
C25_CoverageNeedsTwoVectors ==
    (CoverageDone /\ semFetch.kind = "fetched"
       /\ Len(RetainedExec) + Len(RetainedGolden) < 2)
        => semResult.scatter = <<>>

(***************************************************************************)
(* Claims about the number of recommendations                              *)
(***************************************************************************)
\* C27: when golden references exist and n candidates with usable vectors
\* were fetched, recommend_with_diversity returns exactly min(n, limit)
\* candidates, for every combination of distances, tied distances included.
C27_ExactlyMinOfFetchedAndLimit ==
    (WithGolden /\ semFetch.kind = "fetched") =>
        /\ Len(semResult.body) = Min(Len(WithVectors(semFetch.objs)), semCall.limit)
        /\ \A p \in 1..Len(semResult.body) :
              semResult.body[p].uuid \in RangeOf(WithVectors(semFetch.objs))

\* C27 amended: the call returns at most min(n, limit) candidates, all of
\* them fetched candidates, and exactly min(n, limit) when the distances of
\* the candidates, rounded to 4 decimals, are pairwise distinct.
C27_ExactlyMinWhenDistancesDiffer ==
    (WithGolden /\ semFetch.kind = "fetched") =>
        LET n == Len(WithVectors(semFetch.objs)) IN
        /\ Len(semResult.body) <= Min(n, semCall.limit)
        /\ \A p \in 1..Len(semResult.body) :
              semResult.body[p].uuid \in RangeOf(WithVectors(semFetch.objs))
        /\ (\A i, j \in 1..n :
               i # j => Round4(semFetch.dists[i], 1) # Round4(semFetch.dists[j], 1))
              => Len(semResult.body) = Min(n, semCall.limit)

\* C27 witness: two candidates at the same distance, limit 2: the first one
\* is taken both as discovery and as steady, and one candidate comes back
C27_Witness ==
    /\ WithGolden /\ semFetch.kind = "fetched"
    /\ semCall.limit = 2
    /\ Len(WithVectors(semFetch.objs)) = 2
    /\ semFetch.dists[1] = semFetch.dists[2]
    /\ Len(semResult.body) = 1

\* four candidates at different distances, limit 4: four come back
C27_WitnessDistinct ==
    /\ WithGolden /\ semFetch.kind = "fetched"
    /\ semCall.limit = 4
    /\ Len(WithVectors(semFetch.objs)) = 4
    /\ Cardinality(RangeOf(semFetch.dists)) = 4
    /\ Len(semResult.body) = 4


(***************************************************************************)
(* C28: during batch_diagnose_async at most max_concurrent calls of        *)
(* diagnose_and_heal run at the same moment, also when a task has timed    *)
(* out and given its permit back while its call still runs in its thread,  *)
(* and the returned results hold exactly one dict per function name, in    *)
(* the order of the names.                                                 *)
(***************************************************************************)
BatchDone == batchPc = "done"

\* the tasks that timed out while their call was running: the permit is back,
\* the thread is still taken
Abandoned == {i \in RunningWork : taskPc[i] = "returned"}

C28_BoundedCallsOneResultPerName ==
    /\ Cardinality(RunningWork) <= max_concurrent
    /\ BatchDone =>
         /\ Len(batchResult.results) = Len(batch_names)
         /\ \A i \in 1..Len(batch_names) :
              batchResult.results[i].function_name = batch_names[i]
         /\ batchResult.total = Len(batch_names)
         /\ batchResult.succeeded + batchResult.failed = Len(batch_names)

\* a timed-out call still runs, its permit went to another task whose call
\* waits for a thread because all max_concurrent threads are taken
C28_Witness ==
    /\ batchPc = "gather"
    /\ Abandoned # {}
    /\ Cardinality(RunningWork) = max_concurrent
    /\ \E i \in 1..Len(batch_names) :
         taskPc[i] = "awaiting" /\ workItem[i] = "queued"

\* the batch returned with both function names in its results
C28_WitnessDone ==
    /\ BatchDone
    /\ Len(batch_names) = MaxBatch
    /\ \E i, j \in 1..Len(batch_names) : batch_names[i] # batch_names[j]
    /\ batchResult.succeeded > 0
    /\ batchResult.failed > 0


(***************************************************************************)
(* C29: for a free-plan user the call_count recorded for the day never     *)
(* exceeds FREE_DAILY_LIMIT, whatever diagnose, diagnose/batch and         *)
(* diagnose/{function_name} requests the user makes and however they       *)
(* interleave.                                                             *)
(***************************************************************************)
C29_FreeCountWithinLimit ==
    plan = "free" => get_usage_today(usage_row) <= FREE_DAILY_LIMIT


(***************************************************************************)
(* C26: whatever create, update, delete and activate requests of the user  *)
(* have run, one after another or overlapping, at most one connection of   *)
(* the user has is_active = true, and the query of get_user_connection and *)
(* get_user_weaviate_client never finds two active connections.            *)
(***************************************************************************)
C26_AtMostOneActive ==
    /\ Cardinality(ActiveRows(connections)) <= 1
    /\ connResult.kind # "multiple"

(***************************************************************************)
(* C30: the client that get_user_weaviate_client returns was made from the *)
(* configuration the connection has at the time of the call; after         *)
(* update_connection changed the host, no client made for the old host is  *)
(* returned.                                                               *)
(***************************************************************************)
C30_ClientMadeFromCurrentConfig ==
    clientResult.kind = "client" => clientResult.made_for = clientResult.host

=============================================================================
